---- MODULE Spec2Model ----
(***************************************************************************)
(* Model of the image annotation session (components/ImageAnnotator.tsx)   *)
(* and of the upload screen that hosts it (UploadScreen).                  *)
(*                                                                         *)
(* Spec         the annotation session and the host's save handlers        *)
(* SpecDelete   handleTouchStart/handleDeletion applied to stored sets     *)
(* SpecUpload   UploadScreen's image list and handleUpload                 *)
(* SpecUploadFair  SpecUpload where every request settles                  *)
(* SpecScanner  ScannerScreen's handleBarCodeScanned                       *)
(* SpecSelect   the pan responder in select mode over stored annotations   *)
(* SpecGone     the pan responder on a drag whose annotation is gone       *)
(* SpecAngle    label placement of measured lines in the axis and diagonal *)
(*              directions                                                 *)
(* SpecHit      presses at and around the hit radius of stored annotations *)
(*                                                                         *)
(* st is the React state of the mounted ImageAnnotator, rd is the state as *)
(* of the last render: handlers created by a render read rd (their         *)
(* closure), functional updaters (setX(prev => ...)) read st. Presses of   *)
(* the canvas and of buttons are handled by the current render; a move or  *)
(* a release may be handled before the render that follows the last move.  *)
(***************************************************************************)
EXTENDS Integers, Sequences, FiniteSets, TLC

VARIABLES st, rd, pressed, now, saves, onSaveCalls, alerts, thrown,
          showAnnotator, selectedImageIndex, loadedAnnotations, storage,
          images, session, atOpen, closedBy, nOps,
          uploading, uploadScreen, uploads, dialogs, nBatches,
          scanned, scannerScreen, scans, asyncStorage, invalidAlerts, nScans,
          route, uploadContext

vars == <<st, rd, pressed, now, saves, onSaveCalls, alerts, thrown,
          showAnnotator, selectedImageIndex, loadedAnnotations, storage,
          images, session, atOpen, closedBy, nOps,
          uploading, uploadScreen, uploads, dialogs, nBatches,
          scanned, scannerScreen, scans, asyncStorage, invalidAlerts, nScans,
          route, uploadContext>>

(* The state of the annotator and of the host's annotation handlers. *)
annotatorVars == <<st, rd, pressed, now, saves, onSaveCalls, alerts, thrown,
                   showAnnotator, selectedImageIndex, loadedAnnotations,
                   session, atOpen, closedBy, nOps>>

(* UploadScreen's upload state: the uploading flag, the flag as of the
   screen's last render, the running handleUpload calls, the open alerts,
   and the number of Upload presses. *)
uploadVars == <<uploading, uploadScreen, uploads, dialogs, nBatches>>

(* ScannerScreen: the scanned flag, the flag as of the screen's last
   render, the running handleBarCodeScanned calls, the AsyncStorage items
   styleId/accessToken/baseUrl, the alerts shown, the scan events so far. *)
scannerVars == <<scanned, scannerScreen, scans, asyncStorage, invalidAlerts,
                 nScans>>

(* The screen on top of the router's stack and global.uploadContext. *)
appVars == <<uploadVars, scannerVars, route, uploadContext>>

hostVars == <<showAnnotator, selectedImageIndex, loadedAnnotations, storage,
              images, session, atOpen, closedBy>>

(* ------------------------------ bounds --------------------------------- *)
MaxOps == 4
MaxSaves == 2
MaxSessions == 2
MaxNow == 1
MaxCoord == 1
MaxImages == 2
MaxBatches == 2
MaxScans == 3

(* ------------------------------ values --------------------------------- *)
Null == [isNull |-> TRUE]

DEFAULT_COLOR == "#FF0000"

ThemeTextColor == "theme.colors.text"

PointSet == {[x |-> 100 * i, y |-> 100 * i] : i \in 0..MaxCoord}

InputSet == {"", "5"}

ModeButtons == {"select", "draw", "text", "tick", "cross", "rectangle",
                "measure", "compare"}

(* null in a string-valued field (selectedItem.type, selectedItem.id) *)
NullStr == "null"

NoSelection == [type |-> NullStr, id |-> NullStr, initialPosition |-> Null]

(* Date.now().toString() *)
NewId == ToString(now)

(* The five collections a render closes over for handleSave and
   saveToUndoStack. *)
Snapshot(s) ==
    [paths |-> s.paths, texts |-> s.texts, icons |-> s.icons,
     rectangles |-> s.rectangles, measurements |-> s.measurements]

(* useState initialisers of the component, from the initialAnnotations prop *)
(* The initialisers ignoring the initialAnnotations prop. *)
OrEmpty_PropIgnored(a, f) == <<>>

OrEmpty(a, f) == IF a # Null /\ f \in DOMAIN a THEN a[f] ELSE <<>>

InitialState(a) ==
    [mode |-> "draw",
     paths |-> OrEmpty(a, "paths"),
     texts |-> OrEmpty(a, "texts"),
     icons |-> OrEmpty(a, "icons"),
     rectangles |-> OrEmpty(a, "rectangles"),
     measurements |-> OrEmpty(a, "measurements"),
     currentPath |-> Null,
     currentRect |-> Null,
     currentMeasurement |-> Null,
     textInput |-> "",
     textPosition |-> Null,
     showTextInput |-> FALSE,
     measurementInput |-> "",
     showMeasurementInput |-> FALSE,
     hasUnsavedChanges |-> FALSE,
     undoStack |-> <<>>,
     showComparisonInput |-> FALSE,
     currentComparisonInput |-> "",
     targetComparisonInput |-> "",
     currentComparison |-> Null,
     comparisons |-> <<>>,
     selectedItem |-> NoSelection]

(* JSON.stringify / JSON.parse as used for the AsyncStorage item *)
JSONstringify(a) == [json |-> a]

JSONparse(s) == s.json

(* ------------------------------ helpers -------------------------------- *)
(* selectedImageIndex: 0 stands for null, images are numbered from 1 *)
Mounted == showAnnotator /\ selectedImageIndex # 0

Rendered == rd = st

CanAct == Mounted /\ nOps < MaxOps

RemoveAt(s, i) == [k \in 1..(Len(s) - 1) |-> IF k < i THEN s[k] ELSE s[k + 1]]

(* History kept for stating properties, no part of the program's state:
     onSaveCalls  the calls of the onSave prop so far, with the session
                  whose handleSave made the call
     alerts       number of Alert.alert('Error', ...) shown
     thrown       a handler raised an uncaught error
     session      number of the annotator instance mounted last
     atOpen       the AsyncStorage item when that instance was mounted
     closedBy     what unmounted it: "cancel", "save", or "none" while it
                  is mounted
     nOps         number of counted user events *)
(* ------------------------ the screens at rest -------------------------- *)
(* global.uploadContext after a scan that was accepted. *)
ScannedTarget ==
    [styleId |-> "S1", token |-> "T1", baseUrl |-> "http://server"]

(* UploadScreen with no upload started and no alert open. *)
UploadIdle ==
    /\ uploading = FALSE
    /\ uploadScreen = [uploading |-> FALSE]
    /\ uploads = <<>>
    /\ dialogs = <<>>
    /\ nBatches = 0

(* ScannerScreen after the scan that opened the upload screen. *)
ScannerIdle ==
    /\ scanned = TRUE
    /\ scannerScreen = [scanned |-> TRUE]
    /\ scans = <<>>
    /\ asyncStorage = [styleId |-> ScannedTarget.styleId,
                       accessToken |-> ScannedTarget.token,
                       baseUrl |-> ScannedTarget.baseUrl]
    /\ invalidAlerts = 0
    /\ nScans = 0

(* ------------------------------- Init ---------------------------------- *)
(* The upload screen with one image picked and the annotator not shown. *)
Init ==
    /\ st = InitialState(Null)
    /\ rd = InitialState(Null)
    /\ pressed = FALSE
    /\ now = 0
    /\ saves = <<>>
    /\ onSaveCalls = <<>>
    /\ alerts = 0
    /\ thrown = FALSE
    /\ showAnnotator = FALSE
    /\ selectedImageIndex = 0
    /\ loadedAnnotations = Null
    /\ storage = Null
    /\ images = <<[uri |-> "img1", uploaded |-> FALSE,
                    hasAnnotations |-> FALSE, annotations |-> Null]>>
    /\ session = 0
    /\ atOpen = Null
    /\ closedBy = "none"
    /\ nOps = 0
    /\ UploadIdle
    /\ ScannerIdle
    /\ route = "upload"
    /\ uploadContext = ScannedTarget

(* ------------------------------ host ----------------------------------- *)
(* handleImagePress: select the image, load its saved annotations, show the
   annotator, which mounts with fresh state. *)
handleImagePress(index) ==
    /\ ~showAnnotator
    /\ session < MaxSessions
    /\ selectedImageIndex' = index
    /\ loadedAnnotations' = IF storage # Null THEN JSONparse(storage) ELSE Null
    /\ showAnnotator' = TRUE
    /\ st' = InitialState(loadedAnnotations')
    /\ rd' = InitialState(loadedAnnotations')
    /\ pressed' = FALSE
    /\ session' = session + 1
    /\ atOpen' = storage
    /\ closedBy' = "none"
    /\ UNCHANGED <<now, saves, onSaveCalls, alerts, thrown, storage, images,
                   nOps, appVars>>

(* The host's onClose prop. *)
HostOnClose ==
    /\ showAnnotator' = FALSE
    /\ loadedAnnotations' = Null

(* ------------------------------ render --------------------------------- *)
Render ==
    /\ Mounted
    /\ rd # st
    /\ rd' = st
    /\ UNCHANGED <<st, pressed, now, saves, onSaveCalls, alerts, thrown,
                   hostVars, nOps, appVars>>

ClockTick ==
    /\ now < MaxNow
    /\ now' = now + 1
    /\ UNCHANGED <<st, rd, pressed, saves, onSaveCalls, alerts, thrown,
                   hostVars, nOps, appVars>>

(* --------------------------- hit testing ------------------------------- *)
Abs(n) == IF n < 0 THEN -n ELSE n

Min(a, b) == IF a < b THEN a ELSE b

Max(a, b) == IF a > b THEN a ELSE b

isTextTouched(point, text) ==
    /\ Abs(point.x - text.position.x) < 50
    /\ Abs(point.y - text.position.y) < 50

isIconTouched(point, icon) ==
    /\ Abs(point.x - icon.position.x) < 30
    /\ Abs(point.y - icon.position.y) < 30

(* isBoxTouched taking start for the top-left and end for the bottom-right
   corner. *)
isBoxTouched_StartIsTopLeft(point, shape) ==
    /\ point.x >= shape.start.x - 30
    /\ point.x <= shape.end.x + 30
    /\ point.y >= shape.start.y - 30
    /\ point.y <= shape.end.y + 30

(* isRectangleTouched, isMeasurementTouched and isComparisonTouched share
   one body: the bounding box of start and end grown by hitArea = 30. *)
isBoxTouched(point, shape) ==
    /\ point.x >= Min(shape.start.x, shape.end.x) - 30
    /\ point.x <= Max(shape.start.x, shape.end.x) + 30
    /\ point.y >= Min(shape.start.y, shape.end.y) - 30
    /\ point.y <= Max(shape.start.y, shape.end.y) + 30

isRectangleTouched(point, rect) == isBoxTouched(point, rect)

isMeasurementTouched(point, measurement) == isBoxTouched(point, measurement)

isComparisonTouched(point, comparison) == isBoxTouched(point, comparison)

(* Array.prototype.find: index of the first element satisfying the test,
   0 when there is none. *)
FindText(s, point) ==
    LET hits == {i \in 1..Len(s) : isTextTouched(point, s[i])}
    IN IF hits = {} THEN 0 ELSE CHOOSE i \in hits : \A k \in hits : i <= k

FindIcon(s, point) ==
    LET hits == {i \in 1..Len(s) : isIconTouched(point, s[i])}
    IN IF hits = {} THEN 0 ELSE CHOOSE i \in hits : \A k \in hits : i <= k

FindBox(s, point) ==
    LET hits == {i \in 1..Len(s) : isBoxTouched(point, s[i])}
    IN IF hits = {} THEN 0 ELSE CHOOSE i \in hits : \A k \in hits : i <= k

(* handleSelection probing the icons before the texts. *)
handleSelection_IconsFirst(c, point) ==
    IF FindIcon(c.icons, point) # 0
    THEN [type |-> "icon", id |-> c.icons[FindIcon(c.icons, point)].id,
          initialPosition |-> point]
    ELSE IF FindText(c.texts, point) # 0
    THEN [type |-> "text", id |-> c.texts[FindText(c.texts, point)].id,
          initialPosition |-> point]
    ELSE IF FindBox(c.rectangles, point) # 0
    THEN [type |-> "rectangle",
          id |-> c.rectangles[FindBox(c.rectangles, point)].id,
          initialPosition |-> point]
    ELSE IF FindBox(c.measurements, point) # 0
    THEN [type |-> "measurement",
          id |-> c.measurements[FindBox(c.measurements, point)].id,
          initialPosition |-> point]
    ELSE IF FindBox(c.comparisons, point) # 0
    THEN [type |-> "comparison",
          id |-> c.comparisons[FindBox(c.comparisons, point)].id,
          initialPosition |-> point]
    ELSE NoSelection

(* handleSelection, evaluated in the closure c of the render that created
   the pan responder; the result is the argument of setSelectedItem. *)
handleSelection(c, point) ==
    IF FindText(c.texts, point) # 0
    THEN [type |-> "text", id |-> c.texts[FindText(c.texts, point)].id,
          initialPosition |-> point]
    ELSE IF FindIcon(c.icons, point) # 0
    THEN [type |-> "icon", id |-> c.icons[FindIcon(c.icons, point)].id,
          initialPosition |-> point]
    ELSE IF FindBox(c.rectangles, point) # 0
    THEN [type |-> "rectangle",
          id |-> c.rectangles[FindBox(c.rectangles, point)].id,
          initialPosition |-> point]
    ELSE IF FindBox(c.measurements, point) # 0
    THEN [type |-> "measurement",
          id |-> c.measurements[FindBox(c.measurements, point)].id,
          initialPosition |-> point]
    ELSE IF FindBox(c.comparisons, point) # 0
    THEN [type |-> "comparison",
          id |-> c.comparisons[FindBox(c.comparisons, point)].id,
          initialPosition |-> point]
    ELSE NoSelection

(* --------------------------- pan responder ----------------------------- *)
Translate(pt, dx, dy) == [x |-> pt.x + dx, y |-> pt.y + dy]

(* MovePosition translating every element, whatever its id. *)
MovePosition_EveryId(s, id, dx, dy) ==
    [i \in 1..Len(s) |->
        [s[i] EXCEPT !.position = Translate(s[i].position, dx, dy)]]

MovePosition(s, id, dx, dy) ==
    [i \in 1..Len(s) |->
        IF s[i].id = id
        THEN [s[i] EXCEPT !.position = Translate(s[i].position, dx, dy)]
        ELSE s[i]]

(* MoveEnds translating every element, whatever its id. *)
MoveEnds_EveryId(s, id, dx, dy) ==
    [i \in 1..Len(s) |->
        [s[i] EXCEPT !.start = Translate(s[i].start, dx, dy),
                     !.end = Translate(s[i].end, dx, dy)]]

MoveEnds(s, id, dx, dy) ==
    [i \in 1..Len(s) |->
        IF s[i].id = id
        THEN [s[i] EXCEPT !.start = Translate(s[i].start, dx, dy),
                          !.end = Translate(s[i].end, dx, dy)]
        ELSE s[i]]

GestureFrame ==
    UNCHANGED <<rd, now, saves, onSaveCalls, alerts, thrown, hostVars, appVars>>

(* A press is a discrete event: it is handled by the handlers of the
   current render and React renders its updates before the next event is
   dispatched. Only move events can be handled before the render that
   follows the previous move. *)
PressFrame ==
    UNCHANGED <<now, saves, onSaveCalls, alerts, thrown, hostVars, appVars>>

(* onPanResponderGrant storing a cross as a tick. *)
onPanResponderGrant_CrossAsTick(point) ==
    /\ CanAct
    /\ ~pressed
    /\ Rendered
    /\ pressed' = TRUE
    /\ nOps' = nOps + 1
    /\ PressFrame
    /\ st' =
        CASE rd.mode = "draw" ->
               [st EXCEPT !.currentPath =
                   [id |-> NewId, points |-> <<point>>, color |-> DEFAULT_COLOR]]
          [] rd.mode = "rectangle" ->
               [st EXCEPT !.currentRect =
                   [id |-> NewId, start |-> point, end |-> point,
                    color |-> DEFAULT_COLOR]]
          [] rd.mode = "measure" ->
               [st EXCEPT !.currentMeasurement =
                   [id |-> NewId, start |-> point, end |-> point,
                    measurement |-> ""]]
          [] rd.mode = "compare" ->
               [st EXCEPT !.currentComparison =
                   [id |-> NewId, start |-> point, end |-> point,
                    currentMeasurement |-> "", targetMeasurement |-> ""]]
          [] rd.mode = "text" ->
               [st EXCEPT !.textPosition = point, !.showTextInput = TRUE]
          [] rd.mode = "tick" ->
               [st EXCEPT !.icons = Append(st.icons,
                              [id |-> NewId, type |-> "tick", position |-> point]),
                          !.hasUnsavedChanges = TRUE]
          [] rd.mode = "cross" ->
               [st EXCEPT !.icons = Append(st.icons,
                              [id |-> NewId, type |-> "tick", position |-> point]),
                          !.hasUnsavedChanges = TRUE]
          [] rd.mode = "select" ->
               [st EXCEPT !.selectedItem = handleSelection(rd, point)]
          [] OTHER -> st
    /\ rd' = st'

onPanResponderGrant(point) ==
    /\ CanAct
    /\ ~pressed
    /\ Rendered
    /\ pressed' = TRUE
    /\ nOps' = nOps + 1
    /\ PressFrame
    /\ st' =
        CASE rd.mode = "draw" ->
               [st EXCEPT !.currentPath =
                   [id |-> NewId, points |-> <<point>>, color |-> DEFAULT_COLOR]]
          [] rd.mode = "rectangle" ->
               [st EXCEPT !.currentRect =
                   [id |-> NewId, start |-> point, end |-> point,
                    color |-> DEFAULT_COLOR]]
          [] rd.mode = "measure" ->
               [st EXCEPT !.currentMeasurement =
                   [id |-> NewId, start |-> point, end |-> point,
                    measurement |-> ""]]
          [] rd.mode = "compare" ->
               [st EXCEPT !.currentComparison =
                   [id |-> NewId, start |-> point, end |-> point,
                    currentMeasurement |-> "", targetMeasurement |-> ""]]
          [] rd.mode = "text" ->
               [st EXCEPT !.textPosition = point, !.showTextInput = TRUE]
          [] rd.mode = "tick" ->
               [st EXCEPT !.icons = Append(st.icons,
                              [id |-> NewId, type |-> "tick", position |-> point]),
                          !.hasUnsavedChanges = TRUE]
          [] rd.mode = "cross" ->
               [st EXCEPT !.icons = Append(st.icons,
                              [id |-> NewId, type |-> "cross", position |-> point]),
                          !.hasUnsavedChanges = TRUE]
          [] rd.mode = "select" ->
               [st EXCEPT !.selectedItem = handleSelection(rd, point)]
          [] OTHER -> st
    /\ rd' = st'

onPanResponderMove(point) ==
    /\ CanAct
    /\ pressed
    /\ nOps' = nOps + 1
    /\ UNCHANGED pressed
    /\ GestureFrame
    /\ st' =
        IF rd.mode = "select" /\ rd.selectedItem.id # NullStr
              /\ rd.selectedItem.initialPosition # Null
        THEN LET dx == point.x - rd.selectedItem.initialPosition.x
                 dy == point.y - rd.selectedItem.initialPosition.y
                 id == rd.selectedItem.id
                 moved ==
                   CASE rd.selectedItem.type = "text" ->
                          [st EXCEPT !.texts = MovePosition(st.texts, id, dx, dy)]
                     [] rd.selectedItem.type = "icon" ->
                          [st EXCEPT !.icons = MovePosition(st.icons, id, dx, dy)]
                     [] rd.selectedItem.type = "rectangle" ->
                          [st EXCEPT !.rectangles =
                              MoveEnds(st.rectangles, id, dx, dy)]
                     [] rd.selectedItem.type = "measurement" ->
                          [st EXCEPT !.measurements =
                              MoveEnds(st.measurements, id, dx, dy)]
                     [] rd.selectedItem.type = "comparison" ->
                          [st EXCEPT !.comparisons =
                              MoveEnds(st.comparisons, id, dx, dy)]
                     [] OTHER -> st
             IN [moved EXCEPT !.selectedItem.initialPosition = point,
                              !.hasUnsavedChanges = TRUE]
        ELSE IF rd.mode = "draw" /\ rd.currentPath # Null
        THEN [st EXCEPT !.currentPath =
                 [rd.currentPath EXCEPT !.points = Append(@, point)]]
        ELSE IF rd.mode = "rectangle" /\ rd.currentRect # Null
        THEN [st EXCEPT !.currentRect = [rd.currentRect EXCEPT !.end = point]]
        ELSE IF rd.mode = "measure" /\ rd.currentMeasurement # Null
        THEN [st EXCEPT !.currentMeasurement =
                 [rd.currentMeasurement EXCEPT !.end = point]]
        ELSE IF rd.mode = "compare" /\ rd.currentComparison # Null
        THEN [st EXCEPT !.currentComparison =
                 [rd.currentComparison EXCEPT !.end = point]]
        ELSE st

(* onPanResponderRelease committing the measured line at the release,
   without waiting for the value prompt. *)
onPanResponderRelease_CommitsLine ==
    /\ CanAct
    /\ pressed
    /\ pressed' = FALSE
    /\ nOps' = nOps + 1
    /\ GestureFrame
    /\ st' =
        IF rd.mode = "draw" /\ rd.currentPath # Null
        THEN [st EXCEPT !.paths = Append(rd.paths, rd.currentPath),
                        !.currentPath = Null,
                        !.hasUnsavedChanges = TRUE]
        ELSE IF rd.mode = "rectangle" /\ rd.currentRect # Null
        THEN [st EXCEPT !.rectangles = Append(rd.rectangles, rd.currentRect),
                        !.currentRect = Null,
                        !.hasUnsavedChanges = TRUE]
        ELSE IF rd.mode = "measure" /\ rd.currentMeasurement # Null
        THEN [st EXCEPT !.measurements =
                            Append(rd.measurements, rd.currentMeasurement),
                        !.currentMeasurement = Null,
                        !.hasUnsavedChanges = TRUE]
        ELSE IF rd.mode = "compare" /\ rd.currentComparison # Null
        THEN [st EXCEPT !.showComparisonInput = TRUE,
                        !.hasUnsavedChanges = TRUE]
        ELSE IF rd.mode = "select"
        THEN [st EXCEPT !.selectedItem = NoSelection]
        ELSE st

(* onPanResponderRelease without the select branch. *)
onPanResponderRelease_KeepsSelection ==
    /\ CanAct
    /\ pressed
    /\ pressed' = FALSE
    /\ nOps' = nOps + 1
    /\ GestureFrame
    /\ st' =
        IF rd.mode = "draw" /\ rd.currentPath # Null
        THEN [st EXCEPT !.paths = Append(rd.paths, rd.currentPath),
                        !.currentPath = Null,
                        !.hasUnsavedChanges = TRUE]
        ELSE IF rd.mode = "rectangle" /\ rd.currentRect # Null
        THEN [st EXCEPT !.rectangles = Append(rd.rectangles, rd.currentRect),
                        !.currentRect = Null,
                        !.hasUnsavedChanges = TRUE]
        ELSE IF rd.mode = "measure" /\ rd.currentMeasurement # Null
        THEN [st EXCEPT !.showMeasurementInput = TRUE,
                        !.hasUnsavedChanges = TRUE]
        ELSE IF rd.mode = "compare" /\ rd.currentComparison # Null
        THEN [st EXCEPT !.showComparisonInput = TRUE,
                        !.hasUnsavedChanges = TRUE]
        ELSE st

onPanResponderRelease ==
    /\ CanAct
    /\ pressed
    /\ pressed' = FALSE
    /\ nOps' = nOps + 1
    /\ GestureFrame
    /\ st' =
        IF rd.mode = "draw" /\ rd.currentPath # Null
        THEN [st EXCEPT !.paths = Append(rd.paths, rd.currentPath),
                        !.currentPath = Null,
                        !.hasUnsavedChanges = TRUE]
        ELSE IF rd.mode = "rectangle" /\ rd.currentRect # Null
        THEN [st EXCEPT !.rectangles = Append(rd.rectangles, rd.currentRect),
                        !.currentRect = Null,
                        !.hasUnsavedChanges = TRUE]
        ELSE IF rd.mode = "measure" /\ rd.currentMeasurement # Null
        THEN [st EXCEPT !.showMeasurementInput = TRUE,
                        !.hasUnsavedChanges = TRUE]
        ELSE IF rd.mode = "compare" /\ rd.currentComparison # Null
        THEN [st EXCEPT !.showComparisonInput = TRUE,
                        !.hasUnsavedChanges = TRUE]
        ELSE IF rd.mode = "select"
        THEN [st EXCEPT !.selectedItem = NoSelection]
        ELSE st

(* ------------------------------ buttons -------------------------------- *)
(* A button press is handled by the handlers of the current render, with
   one pointer: no button is pressed while the canvas is being touched. *)
CanPress == CanAct /\ ~pressed /\ Rendered

ButtonFrame ==
    /\ nOps' = nOps + 1
    /\ UNCHANGED <<rd, pressed, now, saves, onSaveCalls, alerts, hostVars,
                   appVars>>

(* Presses that only choose among finitely many values (tool mode, prompt
   text, prompt dismissal) are not counted against MaxOps. *)
ChoiceFrame ==
    UNCHANGED <<rd, pressed, now, saves, onSaveCalls, alerts, hostVars, nOps,
                appVars>>

setMode(m) ==
    /\ CanPress
    /\ m # st.mode
    /\ st' = [st EXCEPT !.mode = m]
    /\ UNCHANGED thrown
    /\ ChoiceFrame

(* saveToUndoStack: the pushed snapshot is the closure's, the stack the
   updater extends is the current one. *)
saveToUndoStack(s) ==
    [s EXCEPT !.undoStack = Append(s.undoStack, Snapshot(rd))]

(* handleUndo without the length test: on an empty stack previousState is
   undefined and reading previousState.paths raises a TypeError. *)
handleUndo_Unguarded ==
    /\ CanPress
    /\ IF Len(rd.undoStack) > 0
       THEN LET previousState == rd.undoStack[Len(rd.undoStack)]
            IN /\ st' = [st EXCEPT !.paths = previousState.paths,
                                   !.texts = previousState.texts,
                                   !.icons = previousState.icons,
                                   !.rectangles = previousState.rectangles,
                                   !.measurements = previousState.measurements,
                                   !.undoStack = SubSeq(st.undoStack, 1,
                                                        Len(st.undoStack) - 1)]
               /\ UNCHANGED thrown
       ELSE /\ UNCHANGED st
            /\ thrown' = TRUE
    /\ ButtonFrame

handleUndo ==
    /\ CanPress
    /\ IF Len(rd.undoStack) > 0
       THEN LET previousState == rd.undoStack[Len(rd.undoStack)]
            IN st' = [st EXCEPT !.paths = previousState.paths,
                                !.texts = previousState.texts,
                                !.icons = previousState.icons,
                                !.rectangles = previousState.rectangles,
                                !.measurements = previousState.measurements,
                                !.undoStack = SubSeq(st.undoStack, 1,
                                                     Len(st.undoStack) - 1)]
       ELSE UNCHANGED st
    /\ UNCHANGED thrown
    /\ ButtonFrame

(* The trash button's alert, confirmed with "Clear All". *)
(* handleClearAll without setHasUnsavedChanges(true). *)
handleClearAll_LeavesFlag ==
    /\ CanPress
    /\ st' = [saveToUndoStack(st) EXCEPT !.paths = <<>>,
                                         !.texts = <<>>,
                                         !.icons = <<>>,
                                         !.rectangles = <<>>,
                                         !.measurements = <<>>]
    /\ UNCHANGED thrown
    /\ ButtonFrame

handleClearAll ==
    /\ CanPress
    /\ st' = [saveToUndoStack(st) EXCEPT !.paths = <<>>,
                                         !.texts = <<>>,
                                         !.icons = <<>>,
                                         !.rectangles = <<>>,
                                         !.measurements = <<>>,
                                         !.hasUnsavedChanges = TRUE]
    /\ UNCHANGED thrown
    /\ ButtonFrame

(* ------------------------------ prompts -------------------------------- *)
setTextInput(v) ==
    /\ CanPress
    /\ rd.showTextInput
    /\ v # st.textInput
    /\ st' = [st EXCEPT !.textInput = v]
    /\ UNCHANGED thrown
    /\ ChoiceFrame

TextCancel ==
    /\ CanPress
    /\ rd.showTextInput
    /\ st' = [st EXCEPT !.showTextInput = FALSE, !.textInput = ""]
    /\ UNCHANGED thrown
    /\ ChoiceFrame

(* The Add button placing the text at the canvas origin instead of the
   recorded anchor. *)
TextAdd_AtOrigin ==
    /\ CanPress
    /\ rd.showTextInput
    /\ IF rd.textInput # "" /\ rd.textPosition # Null
       THEN st' = [st EXCEPT !.texts = Append(rd.texts,
                                 [id |-> NewId, text |-> rd.textInput,
                                  position |-> [x |-> 0, y |-> 0],
                                  color |-> ThemeTextColor]),
                             !.textInput = "",
                             !.showTextInput = FALSE,
                             !.hasUnsavedChanges = TRUE]
       ELSE UNCHANGED st
    /\ UNCHANGED thrown
    /\ ButtonFrame

TextAdd ==
    /\ CanPress
    /\ rd.showTextInput
    /\ IF rd.textInput # "" /\ rd.textPosition # Null
       THEN st' = [st EXCEPT !.texts = Append(rd.texts,
                                 [id |-> NewId, text |-> rd.textInput,
                                  position |-> rd.textPosition,
                                  color |-> ThemeTextColor]),
                             !.textInput = "",
                             !.showTextInput = FALSE,
                             !.hasUnsavedChanges = TRUE]
       ELSE UNCHANGED st
    /\ UNCHANGED thrown
    /\ ButtonFrame

setMeasurementInput(v) ==
    /\ CanPress
    /\ rd.showMeasurementInput
    /\ v # st.measurementInput
    /\ st' = [st EXCEPT !.measurementInput = v]
    /\ UNCHANGED thrown
    /\ ChoiceFrame

MeasurementCancel ==
    /\ CanPress
    /\ rd.showMeasurementInput
    /\ st' = [st EXCEPT !.showMeasurementInput = FALSE,
                        !.measurementInput = "",
                        !.currentMeasurement = Null]
    /\ UNCHANGED thrown
    /\ ChoiceFrame

(* The Add button of the measurement prompt dropping the measured line,
   with the prompt left open, when no value was entered. *)
MeasurementAdd_EmptyDropsLine ==
    /\ CanPress
    /\ rd.showMeasurementInput
    /\ IF rd.measurementInput # "" /\ rd.currentMeasurement # Null
       THEN st' = [st EXCEPT !.measurements = Append(rd.measurements,
                                 [rd.currentMeasurement EXCEPT
                                     !.measurement = rd.measurementInput]),
                             !.measurementInput = "",
                             !.showMeasurementInput = FALSE,
                             !.currentMeasurement = Null,
                             !.hasUnsavedChanges = TRUE]
       ELSE st' = [st EXCEPT !.currentMeasurement = Null]
    /\ UNCHANGED thrown
    /\ ButtonFrame

MeasurementAdd ==
    /\ CanPress
    /\ rd.showMeasurementInput
    /\ IF rd.measurementInput # "" /\ rd.currentMeasurement # Null
       THEN st' = [st EXCEPT !.measurements = Append(rd.measurements,
                                 [rd.currentMeasurement EXCEPT
                                     !.measurement = rd.measurementInput]),
                             !.measurementInput = "",
                             !.showMeasurementInput = FALSE,
                             !.currentMeasurement = Null,
                             !.hasUnsavedChanges = TRUE]
       ELSE UNCHANGED st
    /\ UNCHANGED thrown
    /\ ButtonFrame

setCurrentComparisonInput(v) ==
    /\ CanPress
    /\ rd.showComparisonInput
    /\ v # st.currentComparisonInput
    /\ st' = [st EXCEPT !.currentComparisonInput = v]
    /\ UNCHANGED thrown
    /\ ChoiceFrame

setTargetComparisonInput(v) ==
    /\ CanPress
    /\ rd.showComparisonInput
    /\ v # st.targetComparisonInput
    /\ st' = [st EXCEPT !.targetComparisonInput = v]
    /\ UNCHANGED thrown
    /\ ChoiceFrame

ComparisonCancel ==
    /\ CanPress
    /\ rd.showComparisonInput
    /\ st' = [st EXCEPT !.showComparisonInput = FALSE,
                        !.currentComparisonInput = "",
                        !.targetComparisonInput = "",
                        !.currentComparison = Null]
    /\ UNCHANGED thrown
    /\ ChoiceFrame

ComparisonAdd ==
    /\ CanPress
    /\ rd.showComparisonInput
    /\ IF rd.currentComparisonInput # "" /\ rd.targetComparisonInput # ""
          /\ rd.currentComparison # Null
       THEN st' = [st EXCEPT !.comparisons = Append(rd.comparisons,
                                 [rd.currentComparison EXCEPT
                                     !.currentMeasurement = rd.currentComparisonInput,
                                     !.targetMeasurement = rd.targetComparisonInput]),
                             !.currentComparisonInput = "",
                             !.targetComparisonInput = "",
                             !.showComparisonInput = FALSE,
                             !.currentComparison = Null,
                             !.hasUnsavedChanges = TRUE]
       ELSE UNCHANGED st
    /\ UNCHANGED thrown
    /\ ButtonFrame

(* -------------------------------- save --------------------------------- *)
(* handleSave runs in three parts, split at its awaits: the call up to
   captureRef, the part from the capture's result up to the host's
   AsyncStorage write, and the part after the host's promise resolved.
   An entry of saves is one running call:
     data  the five collections of the render whose handler was pressed
     sess  the session (component instance) the call belongs to. *)
THUMBNAIL_URI == "file:///thumbnail.png"

SaveFrame == UNCHANGED <<rd, pressed, now, session, atOpen, nOps, appVars>>

handleSave ==
    /\ CanPress
    /\ rd.hasUnsavedChanges
    /\ Len(saves) < MaxSaves
    /\ saves' = Append(saves, [pc |-> "capture", data |-> Snapshot(rd),
                               sess |-> session])
    /\ nOps' = nOps + 1
    /\ UNCHANGED <<st, rd, pressed, now, onSaveCalls, alerts, thrown, hostVars,
                   appVars>>

(* captureRef resolved: build annotationData and call onSave, which runs
   handleAnnotatedImage up to its first await. *)
CaptureResolved(i) ==
    /\ i \in 1..Len(saves)
    /\ saves[i].pc = "capture"
    /\ LET annotationData ==
             [paths |-> saves[i].data.paths,
              texts |-> saves[i].data.texts,
              icons |-> saves[i].data.icons,
              rectangles |-> saves[i].data.rectangles,
              measurements |-> saves[i].data.measurements,
              thumbnailUri |-> THUMBNAIL_URI]
       IN /\ onSaveCalls' = Append(onSaveCalls,
                             [annotations |-> annotationData,
                              sess |-> saves[i].sess])
          /\ saves' = [saves EXCEPT ![i] =
                          [pc |-> "host", data |-> annotationData,
                           sess |-> saves[i].sess]]
    /\ UNCHANGED <<st, alerts, thrown, showAnnotator, selectedImageIndex,
                   loadedAnnotations, storage, images, closedBy>>
    /\ SaveFrame

(* A catch block that also clears the flag and closes the annotator. *)
CaptureRejected_Closes(i) ==
    /\ i \in 1..Len(saves)
    /\ saves[i].pc = "capture"
    /\ saves' = RemoveAt(saves, i)
    /\ alerts' = alerts + 1
    /\ st' = IF saves[i].sess = session
             THEN [st EXCEPT !.hasUnsavedChanges = FALSE]
             ELSE st
    /\ HostOnClose
    /\ closedBy' = IF showAnnotator THEN "save" ELSE closedBy
    /\ UNCHANGED <<onSaveCalls, thrown, selectedImageIndex, storage, images>>
    /\ SaveFrame

(* captureRef rejected: the catch block of handleSave shows the alert. *)
CaptureRejected(i) ==
    /\ i \in 1..Len(saves)
    /\ saves[i].pc = "capture"
    /\ saves' = RemoveAt(saves, i)
    /\ alerts' = alerts + 1
    /\ UNCHANGED <<st, onSaveCalls, thrown, showAnnotator, selectedImageIndex,
                   loadedAnnotations, storage, images, closedBy>>
    /\ SaveFrame

(* The tail of handleSave without setHasUnsavedChanges(false). *)
AfterOnSave_KeepsDirty(i) ==
    /\ st' = st
    /\ HostOnClose
    /\ closedBy' = IF showAnnotator THEN "save" ELSE closedBy
    /\ saves' = RemoveAt(saves, i)

(* The tail of handleSave after "await onSave": setHasUnsavedChanges(false)
   on the component instance of the call, then onClose(). *)
AfterOnSave(i) ==
    /\ st' = IF saves[i].sess = session
             THEN [st EXCEPT !.hasUnsavedChanges = FALSE]
             ELSE st
    /\ HostOnClose
    /\ closedBy' = IF showAnnotator THEN "save" ELSE closedBy
    /\ saves' = RemoveAt(saves, i)

(* handleAnnotatedImage, storage write and read-back succeeded. *)
HostSaved(i) ==
    /\ i \in 1..Len(saves)
    /\ saves[i].pc = "host"
    /\ storage' = JSONstringify(saves[i].data)
    /\ images' = [images EXCEPT ![1] =
                     [@ EXCEPT !.hasAnnotations = TRUE,
                               !.annotations = JSONparse(storage')]]
    /\ selectedImageIndex' = 0
    /\ AfterOnSave(i)
    /\ UNCHANGED <<onSaveCalls, alerts, thrown>>
    /\ SaveFrame

(* handleAnnotatedImage, AsyncStorage rejected: its catch block logs and
   shows the alert, and the promise onSave returned resolves. *)
HostFailed(i) ==
    /\ i \in 1..Len(saves)
    /\ saves[i].pc = "host"
    /\ alerts' = alerts + 1
    /\ AfterOnSave(i)
    /\ UNCHANGED <<onSaveCalls, thrown, selectedImageIndex, storage, images>>
    /\ SaveFrame

(* The Cancel button: onPress = onClose. *)
Cancel ==
    /\ CanPress
    /\ HostOnClose
    /\ closedBy' = "cancel"
    /\ nOps' = nOps + 1
    /\ UNCHANGED <<st, rd, pressed, now, saves, onSaveCalls, alerts, thrown,
                   selectedImageIndex, storage, images, session, atOpen,
                   appVars>>

Next ==
    \/ handleImagePress(1)
    \/ handleSave
    \/ \E i \in 1..MaxSaves : CaptureResolved(i)
    \/ \E i \in 1..MaxSaves : CaptureRejected(i)
    \/ \E i \in 1..MaxSaves : HostSaved(i)
    \/ \E i \in 1..MaxSaves : HostFailed(i)
    \/ Cancel
    \/ \E m \in ModeButtons : setMode(m)
    \/ handleUndo
    \/ handleClearAll
    \/ \E v \in InputSet : setTextInput(v)
    \/ TextCancel
    \/ TextAdd
    \/ \E v \in InputSet : setMeasurementInput(v)
    \/ MeasurementCancel
    \/ MeasurementAdd
    \/ \E v \in InputSet : setCurrentComparisonInput(v)
    \/ \E v \in InputSet : setTargetComparisonInput(v)
    \/ ComparisonCancel
    \/ ComparisonAdd
    \/ \E p \in PointSet : onPanResponderGrant(p)
    \/ \E p \in PointSet : onPanResponderMove(p)
    \/ onPanResponderRelease
    \/ Render
    \/ ClockTick

Spec == Init /\ [][Next]_vars

(* ----------------------------- delete tool ----------------------------- *)
(* The component defines handleTouchStart and handleDeletion, but the canvas
   is wired to the pan responder only and no toolbar button selects
   'delete'. SpecDelete applies the handlers, as written, to the stores a
   session can hold.

   handleDeletion: deletedSomething is assigned inside the updater
   callbacks, which React runs either at the setter call or at the next
   render; ran tells whether they have run when the flag is tested. *)
handleDeletion(s, point, ran) ==
    LET newTexts == SelectSeq(s.texts, LAMBDA t : ~isTextTouched(point, t))
        newIcons == SelectSeq(s.icons, LAMBDA i : ~isIconTouched(point, i))
        newRects == SelectSeq(s.rectangles,
                              LAMBDA r : ~isRectangleTouched(point, r))
        newMeasurements == SelectSeq(s.measurements,
                              LAMBDA m : ~isMeasurementTouched(point, m))
        deletedSomething ==
            /\ ran
            /\ \/ Len(newTexts) # Len(s.texts)
               \/ Len(newIcons) # Len(s.icons)
               \/ Len(newRects) # Len(s.rectangles)
               \/ Len(newMeasurements) # Len(s.measurements)
    IN [saveToUndoStack(s) EXCEPT
           !.texts = newTexts,
           !.icons = newIcons,
           !.rectangles = newRects,
           !.measurements = newMeasurements,
           !.hasUnsavedChanges = IF deletedSomething THEN TRUE ELSE @]

(* handleTouchStart, the branch for mode === 'delete'. *)
handleTouchStart(point) ==
    /\ CanAct
    /\ rd.mode = "delete"
    /\ \E ran \in BOOLEAN : st' = handleDeletion(st, point, ran)
    /\ UNCHANGED thrown
    /\ ButtonFrame

(* The stores handleDeletion is applied to: at most one annotation of each
   kind, each at a point of PointSet. *)
StoredTexts ==
    {<<>>} \cup {<<[id |-> "t", text |-> "5", position |-> p,
                    color |-> ThemeTextColor]>> : p \in PointSet}

StoredIcons ==
    {<<>>} \cup {<<[id |-> "i", type |-> "tick", position |-> p]>> :
                    p \in PointSet}

StoredRectangles ==
    {<<>>} \cup {<<[id |-> "r", start |-> p, end |-> p,
                    color |-> DEFAULT_COLOR]>> : p \in PointSet}

StoredMeasurements ==
    {<<>>} \cup {<<[id |-> "m", start |-> p, end |-> p,
                    measurement |-> "5"]>> : p \in PointSet}

StoredComparisons ==
    {<<>>} \cup {<<[id |-> "c", start |-> p, end |-> p,
                    currentMeasurement |-> "5",
                    targetMeasurement |-> "5"]>> : p \in PointSet}

(* A mounted annotator in delete mode. *)
InitDelete ==
    /\ \E t \in StoredTexts, i \in StoredIcons, r \in StoredRectangles,
          m \in StoredMeasurements, c \in StoredComparisons :
          st = [InitialState(Null) EXCEPT !.mode = "delete",
                                          !.texts = t,
                                          !.icons = i,
                                          !.rectangles = r,
                                          !.measurements = m,
                                          !.comparisons = c]
    /\ rd = st
    /\ pressed = FALSE
    /\ now = 0
    /\ saves = <<>>
    /\ onSaveCalls = <<>>
    /\ alerts = 0
    /\ thrown = FALSE
    /\ showAnnotator = TRUE
    /\ selectedImageIndex = 1
    /\ loadedAnnotations = Null
    /\ storage = Null
    /\ images = <<[uri |-> "img1", uploaded |-> FALSE,
                   hasAnnotations |-> FALSE, annotations |-> Null]>>
    /\ session = 1
    /\ atOpen = Null
    /\ closedBy = "none"
    /\ nOps = 0
    /\ UploadIdle
    /\ ScannerIdle
    /\ route = "upload"
    /\ uploadContext = ScannedTarget

NextDelete ==
    \/ \E p \in PointSet : handleTouchStart(p)
    \/ handleUndo
    \/ Render

SpecDelete == InitDelete /\ [][NextDelete]_vars

(* ------------------------------- select -------------------------------- *)
(* SpecSelect: a session opened in select mode over a store that earlier
   sessions have filled, and the gestures of the pan responder on it. The
   annotations of a store lie at two points p and q of PointSet: up to two
   texts, icons and rectangles, the first at p and the second at q, and at
   most one measurement and comparison, each at p or at q; ids are
   distinct. *)
UpTo2(a, b) == {<<>>, <<a>>, <<b>>, <<a, b>>}

UpTo1(a, b) == {<<>>, <<a>>, <<b>>}

TextAt(id, p) ==
    [id |-> id, text |-> "5", position |-> p, color |-> ThemeTextColor]

IconAt(id, p) == [id |-> id, type |-> "tick", position |-> p]

RectAt(id, p) == [id |-> id, start |-> p, end |-> p, color |-> DEFAULT_COLOR]

MeasurementAt(id, p) ==
    [id |-> id, start |-> p, end |-> p, measurement |-> "5"]

ComparisonAt(id, p) ==
    [id |-> id, start |-> p, end |-> p, currentMeasurement |-> "5",
     targetMeasurement |-> "5"]

SelectState(t, i, r, m, c) ==
    [InitialState(Null) EXCEPT !.mode = "select",
                               !.texts = t,
                               !.icons = i,
                               !.rectangles = r,
                               !.measurements = m,
                               !.comparisons = c]

InitSelect ==
    /\ \E p \in PointSet, q \in PointSet :
          \E t \in UpTo2(TextAt("t1", p), TextAt("t2", q)),
             i \in UpTo2(IconAt("i1", p), IconAt("i2", q)),
             r \in UpTo2(RectAt("r1", p), RectAt("r2", q)),
             m \in UpTo1(MeasurementAt("m", p), MeasurementAt("m", q)),
             c \in UpTo1(ComparisonAt("c", p), ComparisonAt("c", q)) :
             st = SelectState(t, i, r, m, c)
    /\ rd = st
    /\ pressed = FALSE
    /\ now = 0
    /\ saves = <<>>
    /\ onSaveCalls = <<>>
    /\ alerts = 0
    /\ thrown = FALSE
    /\ showAnnotator = TRUE
    /\ selectedImageIndex = 1
    /\ loadedAnnotations = Null
    /\ storage = Null
    /\ images = <<[uri |-> "img1", uploaded |-> FALSE,
                   hasAnnotations |-> FALSE, annotations |-> Null]>>
    /\ session = 1
    /\ atOpen = Null
    /\ closedBy = "none"
    /\ nOps = 0
    /\ UploadIdle
    /\ ScannerIdle
    /\ route = "upload"
    /\ uploadContext = ScannedTarget

NextSelect ==
    \/ \E p \in PointSet : onPanResponderGrant(p)
    \/ \E p \in PointSet : onPanResponderMove(p)
    \/ onPanResponderRelease
    \/ Render

SpecSelect == InitSelect /\ [][NextSelect]_vars

(* SpecGone: the pan responder's handlers applied to a drag whose selected
   id is in no collection, over every store of at most one annotation of
   each kind. With one pointer the component's own events do not lead to
   such a drag (no button is pressed while the canvas is touched); the
   select branch of onPanResponderMove is written to tolerate it. *)
GoneSelections ==
    {[type |-> t, id |-> "gone", initialPosition |-> p] :
        t \in {"text", "icon", "rectangle", "measurement", "comparison"},
        p \in PointSet}

InitGone ==
    /\ \E t \in StoredTexts, i \in StoredIcons, r \in StoredRectangles,
          m \in StoredMeasurements, c \in StoredComparisons,
          sel \in GoneSelections :
          st = [SelectState(t, i, r, m, c) EXCEPT !.selectedItem = sel]
    /\ rd = st
    /\ pressed = TRUE
    /\ now = 0
    /\ saves = <<>>
    /\ onSaveCalls = <<>>
    /\ alerts = 0
    /\ thrown = FALSE
    /\ showAnnotator = TRUE
    /\ selectedImageIndex = 1
    /\ loadedAnnotations = Null
    /\ storage = Null
    /\ images = <<[uri |-> "img1", uploaded |-> FALSE,
                   hasAnnotations |-> FALSE, annotations |-> Null]>>
    /\ session = 1
    /\ atOpen = Null
    /\ closedBy = "none"
    /\ nOps = 0
    /\ UploadIdle
    /\ ScannerIdle
    /\ route = "upload"
    /\ uploadContext = ScannedTarget

SpecGone == InitGone /\ [][NextSelect]_vars

(* ---------------------------- label angle ------------------------------ *)
(* Math.atan2(dy, dx) * 180 / Math.PI, on the directions where the result
   is an exact number of degrees in IEEE doubles: the two axes, the two
   diagonals and the zero vector. *)
Atan2Deg(dy, dx) ==
    CASE dx = 0 /\ dy = 0 -> 0
      [] dy = 0 /\ dx > 0 -> 0
      [] dy = 0 /\ dx < 0 -> 180
      [] dx = 0 /\ dy > 0 -> 90
      [] dx = 0 /\ dy < 0 -> -90
      [] dx > 0 /\ dy = dx -> 45
      [] dx > 0 /\ dy = -dx -> -45
      [] dx < 0 /\ dy = -dx -> 135
      [] dx < 0 /\ dy = dx -> -135

(* getTextRotationAndPosition: both adjustments compare strictly. *)
getTextRotationAndPosition(start, end) ==
    LET raw == Atan2Deg(end.y - start.y, end.x - start.x)
        a1 == IF raw > 90 THEN raw - 180 ELSE raw
        a2 == IF a1 < -90 THEN a1 + 180 ELSE a1
    IN [angle |-> a2,
        midX |-> (start.x + end.x) \div 2,
        midY |-> (start.y + end.y) \div 2]

(* SpecAngle: a session opened in select mode over one measured line, drawn
   between points of a grid around the origin in one of the directions
   Atan2Deg covers; every render computes the line's label placement, and
   a drag translates the line. Coordinates are even, so the midpoint is an
   integer. *)
AnglePoints ==
    {[x |-> 10 * i, y |-> 10 * j] : i, j \in (0 - MaxCoord)..MaxCoord}

AngleLines ==
    UNION {{<<[id |-> "m", start |-> p, end |-> q, measurement |-> "5"]>> :
               q \in {e \in AnglePoints :
                        \/ e.x = p.x
                        \/ e.y = p.y
                        \/ Abs(e.x - p.x) = Abs(e.y - p.y)}} :
             p \in AnglePoints}

InitAngle ==
    /\ \E m \in AngleLines : st = SelectState(<<>>, <<>>, <<>>, m, <<>>)
    /\ rd = st
    /\ pressed = FALSE
    /\ now = 0
    /\ saves = <<>>
    /\ onSaveCalls = <<>>
    /\ alerts = 0
    /\ thrown = FALSE
    /\ showAnnotator = TRUE
    /\ selectedImageIndex = 1
    /\ loadedAnnotations = Null
    /\ storage = Null
    /\ images = <<[uri |-> "img1", uploaded |-> FALSE,
                   hasAnnotations |-> FALSE, annotations |-> Null]>>
    /\ session = 1
    /\ atOpen = Null
    /\ closedBy = "none"
    /\ nOps = 0
    /\ UploadIdle
    /\ ScannerIdle
    /\ route = "upload"
    /\ uploadContext = ScannedTarget

SpecAngle == InitAngle /\ [][NextSelect]_vars

(* ----------------------------- hit testing ------------------------------ *)
(* SpecHit: a session opened in select mode over a store of exactly one
   annotation, a text or an icon anchored at the origin or a rectangle,
   measurement or comparison drawn between two corners of a square in
   either direction, and select presses at the points of a grid whose
   coordinates lie at, just inside and just outside the hit margins. *)
HitCoords == {-51, -50, -49, -31, -30, -29, 0, 20, 29, 30, 31, 49, 50, 51}

HitPoints == {[x |-> a, y |-> b] : a, b \in HitCoords}

Origin == [x |-> 0, y |-> 0]

Corners == {[x |-> a, y |-> b] : a, b \in {0, 20}}

HitStores ==
    {SelectState(<<TextAt("t1", Origin)>>, <<>>, <<>>, <<>>, <<>>),
     SelectState(<<>>, <<IconAt("i1", Origin)>>, <<>>, <<>>, <<>>)}
    \cup {SelectState(<<>>, <<>>, <<[RectAt("r1", p) EXCEPT !.end = q]>>,
                      <<>>, <<>>) : p \in Corners, q \in Corners}
    \cup {SelectState(<<>>, <<>>, <<>>,
                      <<[MeasurementAt("m", p) EXCEPT !.end = q]>>, <<>>) :
             p \in Corners, q \in Corners}
    \cup {SelectState(<<>>, <<>>, <<>>, <<>>,
                      <<[ComparisonAt("c", p) EXCEPT !.end = q]>>) :
             p \in Corners, q \in Corners}

InitHit ==
    /\ st \in HitStores
    /\ rd = st
    /\ pressed = FALSE
    /\ now = 0
    /\ saves = <<>>
    /\ onSaveCalls = <<>>
    /\ alerts = 0
    /\ thrown = FALSE
    /\ showAnnotator = TRUE
    /\ selectedImageIndex = 1
    /\ loadedAnnotations = Null
    /\ storage = Null
    /\ images = <<[uri |-> "img1", uploaded |-> FALSE,
                   hasAnnotations |-> FALSE, annotations |-> Null]>>
    /\ session = 1
    /\ atOpen = Null
    /\ closedBy = "none"
    /\ nOps = 0
    /\ UploadIdle
    /\ ScannerIdle
    /\ route = "upload"
    /\ uploadContext = ScannedTarget

NextHit ==
    \/ \E p \in HitPoints : onPanResponderGrant(p)
    \/ onPanResponderRelease
    \/ Render

SpecHit == InitHit /\ [][NextHit]_vars

(* ------------------------------- upload -------------------------------- *)
(* UploadScreen's image list and handleUpload (app/upload.tsx). An entry of
   uploads is one running handleUpload call:
     images  the images of the render whose Upload button was pressed
     req     per image of that list: "skip" (already uploaded, resolves to
             null), "pending", "ok" (resolves to its index) or "failed"
     pc      "all" while Promise.all is awaited, "rejected" after it has
             rejected while requests of the batch are still running.
   An entry of dialogs is an alert on screen, with the images its OK
   handler closes over. *)
ImageUris == <<"img1", "img2", "img3">>

(* The picker's next asset: the first uri not on the screen. *)
InUse(k) == \E i \in 1..Len(images) : images[i].uri = ImageUris[k]

NewImage(u) ==
    [uri |-> u, uploaded |-> FALSE, hasAnnotations |-> FALSE,
     annotations |-> Null]

(* The screen takes presses: it is on top and no alert covers it. *)
CanPressUpload == route = "upload" /\ dialogs = <<>>

UploadFrame ==
    UNCHANGED <<annotatorVars, scannerVars, uploadContext>>

(* pickImages / takePhoto with one new asset *)
pickImages ==
    /\ CanPressUpload
    /\ Len(images) < MaxImages
    /\ \E k \in 1..Len(ImageUris) :
          /\ ~InUse(k)
          /\ \A j \in 1..(k - 1) : InUse(j)
          /\ images' = Append(images, NewImage(ImageUris[k]))
    /\ UNCHANGED <<uploadVars, route, storage>>
    /\ UploadFrame

removeImage(index) ==
    /\ CanPressUpload
    /\ index \in 1..Len(images)
    /\ images' = RemoveAt(images, index)
    /\ UNCHANGED <<uploadVars, route, storage>>
    /\ UploadFrame

(* UploadScreen re-renders: the Upload button sees the uploading flag. *)
UploadRender ==
    /\ uploadScreen # [uploading |-> uploading]
    /\ uploadScreen' = [uploading |-> uploading]
    /\ UNCHANGED <<images, uploading, uploads, dialogs, nBatches, route,
                   storage>>
    /\ UploadFrame

UploadComplete == "Upload Complete"

UploadFailed == "Upload Failed"

handleUpload_AlwaysEnabled ==
    /\ CanPressUpload
    /\ Len(images) > 0
    /\ nBatches < MaxBatches
    /\ nBatches' = nBatches + 1
    /\ IF uploadContext = Null
       THEN /\ dialogs' = Append(dialogs, [title |-> UploadFailed,
                                           images |-> images])
            /\ uploading' = FALSE
            /\ UNCHANGED uploads
       ELSE /\ uploads' = Append(uploads,
                  [images |-> images,
                   req |-> [i \in 1..Len(images) |->
                               IF images[i].uploaded THEN "skip"
                               ELSE "pending"],
                   pc |-> "all"])
            /\ uploading' = TRUE
            /\ UNCHANGED dialogs
    /\ uploadScreen' = [uploading |-> uploading']
    /\ UNCHANGED <<images, route, storage>>
    /\ UploadFrame

(* The Upload button (rendered when there are images, disabled while the
   rendered uploading flag is set): handleUpload up to Promise.all. Reading
   global.uploadContext throws when it is undefined. The press is a discrete
   event: the screen re-renders with the flag before the next event. *)
handleUpload ==
    /\ CanPressUpload
    /\ Len(images) > 0
    /\ ~uploadScreen.uploading
    /\ nBatches < MaxBatches
    /\ nBatches' = nBatches + 1
    /\ IF uploadContext = Null
       THEN /\ dialogs' = Append(dialogs, [title |-> UploadFailed,
                                           images |-> images])
            /\ uploading' = FALSE
            /\ UNCHANGED uploads
       ELSE /\ uploads' = Append(uploads,
                  [images |-> images,
                   req |-> [i \in 1..Len(images) |->
                               IF images[i].uploaded THEN "skip"
                               ELSE "pending"],
                   pc |-> "all"])
            /\ uploading' = TRUE
            /\ UNCHANGED dialogs
    /\ uploadScreen' = [uploading |-> uploading']
    /\ UNCHANGED <<images, route, storage>>
    /\ UploadFrame

Pending(u) == {i \in 1..Len(u.req) : u.req[i] = "pending"}

(* uploads after request i of call b settled as r: a call whose Promise.all
   has rejected ends with its last request. *)
Settle(b, i, r) ==
    IF uploads[b].pc = "rejected" /\ Pending(uploads[b]) = {i}
    THEN RemoveAt(uploads, b)
    ELSE [uploads EXCEPT ![b].req[i] = r]

(* fetch answered ok: the image's annotations item is removed. *)
RequestSucceeded(b, i) ==
    /\ b \in 1..Len(uploads)
    /\ i \in Pending(uploads[b])
    /\ uploads' = Settle(b, i, "ok")
    /\ storage' = IF uploads[b].images[i].uri = "img1" THEN Null ELSE storage
    /\ UNCHANGED <<images, uploading, uploadScreen, dialogs, nBatches, route>>
    /\ UploadFrame

(* fetch rejected or answered !ok: the image's async function throws. *)
RequestFailed(b, i) ==
    /\ b \in 1..Len(uploads)
    /\ i \in Pending(uploads[b])
    /\ uploads' = Settle(b, i, "failed")
    /\ UNCHANGED <<images, uploading, uploadScreen, dialogs, nBatches, route,
                   storage>>
    /\ UploadFrame

(* Promise.all resolved: mark the images by index, show the completion
   alert, and reset the flag in the finally block. *)
UploadResolved(b) ==
    /\ b \in 1..Len(uploads)
    /\ uploads[b].pc = "all"
    /\ \A i \in 1..Len(uploads[b].req) : uploads[b].req[i] \in {"skip", "ok"}
    /\ images' = [idx \in 1..Len(images) |->
                     [images[idx] EXCEPT !.uploaded =
                         \/ (idx <= Len(uploads[b].req)
                               /\ uploads[b].req[idx] = "ok")
                         \/ @]]
    /\ dialogs' = Append(dialogs, [title |-> UploadComplete,
                                   images |-> uploads[b].images])
    /\ uploading' = FALSE
    /\ uploads' = RemoveAt(uploads, b)
    /\ UNCHANGED <<uploadScreen, nBatches, route, storage>>
    /\ UploadFrame

UploadRejected_KeepsFlag(b) ==
    /\ b \in 1..Len(uploads)
    /\ uploads[b].pc = "all"
    /\ \E i \in 1..Len(uploads[b].req) : uploads[b].req[i] = "failed"
    /\ dialogs' = Append(dialogs, [title |-> UploadFailed,
                                   images |-> uploads[b].images])
    /\ UNCHANGED uploading
    /\ uploads' = IF Pending(uploads[b]) = {}
                  THEN RemoveAt(uploads, b)
                  ELSE [uploads EXCEPT ![b].pc = "rejected"]
    /\ UNCHANGED <<images, uploadScreen, nBatches, route, storage>>
    /\ UploadFrame

(* Promise.all rejected with the first failure: the catch block shows the
   failure alert, the finally block resets the flag. *)
UploadRejected(b) ==
    /\ b \in 1..Len(uploads)
    /\ uploads[b].pc = "all"
    /\ \E i \in 1..Len(uploads[b].req) : uploads[b].req[i] = "failed"
    /\ dialogs' = Append(dialogs, [title |-> UploadFailed,
                                   images |-> uploads[b].images])
    /\ uploading' = FALSE
    /\ uploads' = IF Pending(uploads[b]) = {}
                  THEN RemoveAt(uploads, b)
                  ELSE [uploads EXCEPT ![b].pc = "rejected"]
    /\ UNCHANGED <<images, uploadScreen, nBatches, route, storage>>
    /\ UploadFrame

(* The alert's OK button. The completion alert's handler tests
   images.every(img => img.uploaded) on the images it closes over. *)
AlertOK(d) ==
    /\ d \in 1..Len(dialogs)
    /\ dialogs' = RemoveAt(dialogs, d)
    /\ route' = IF /\ dialogs[d].title = UploadComplete
                   /\ \A i \in 1..Len(dialogs[d].images) :
                         dialogs[d].images[i].uploaded
                THEN "home"
                ELSE route
    /\ UNCHANGED <<images, uploading, uploadScreen, uploads, nBatches,
                   storage>>
    /\ UploadFrame

(* The upload screen as opened by the scanner: no image yet. *)
InitUpload ==
    /\ st = InitialState(Null)
    /\ rd = InitialState(Null)
    /\ pressed = FALSE
    /\ now = 0
    /\ saves = <<>>
    /\ onSaveCalls = <<>>
    /\ alerts = 0
    /\ thrown = FALSE
    /\ showAnnotator = FALSE
    /\ selectedImageIndex = 0
    /\ loadedAnnotations = Null
    /\ storage = Null
    /\ images = <<>>
    /\ session = 0
    /\ atOpen = Null
    /\ closedBy = "none"
    /\ nOps = 0
    /\ UploadIdle
    /\ ScannerIdle
    /\ route = "upload"
    /\ uploadContext = ScannedTarget

NextUpload ==
    \/ pickImages
    \/ \E index \in 1..MaxImages : removeImage(index)
    \/ UploadRender
    \/ handleUpload
    \/ \E b \in 1..MaxBatches, i \in 1..MaxImages : RequestSucceeded(b, i)
    \/ \E b \in 1..MaxBatches, i \in 1..MaxImages : RequestFailed(b, i)
    \/ \E b \in 1..MaxBatches : UploadResolved(b)
    \/ \E b \in 1..MaxBatches : UploadRejected(b)
    \/ \E d \in 1..MaxBatches : AlertOK(d)

SpecUpload == InitUpload /\ [][NextUpload]_vars

(* The upload screen opened by the scanner, or by its route with no scan
   before it (global.uploadContext undefined). *)
InitUploadFair ==
    /\ st = InitialState(Null)
    /\ rd = InitialState(Null)
    /\ pressed = FALSE
    /\ now = 0
    /\ saves = <<>>
    /\ onSaveCalls = <<>>
    /\ alerts = 0
    /\ thrown = FALSE
    /\ showAnnotator = FALSE
    /\ selectedImageIndex = 0
    /\ loadedAnnotations = Null
    /\ storage = Null
    /\ images = <<>>
    /\ session = 0
    /\ atOpen = Null
    /\ closedBy = "none"
    /\ nOps = 0
    /\ UploadIdle
    /\ ScannerIdle
    /\ route = "upload"
    /\ uploadContext \in {Null, ScannedTarget}

(* Every request settles, and the continuation of a settled Promise.all
   runs: the job queue is served. *)
SpecUploadFair ==
    /\ InitUploadFair
    /\ [][NextUpload]_vars
    /\ WF_vars(\E b \in 1..MaxBatches, i \in 1..MaxImages :
                  RequestSucceeded(b, i) \/ RequestFailed(b, i))
    /\ WF_vars(\E b \in 1..MaxBatches : UploadResolved(b))
    /\ WF_vars(\E b \in 1..MaxBatches : UploadRejected(b))

(* ------------------------------- scanner ------------------------------- *)
(* A scanned QR code's text, as new URL(data) sees it: whether it parses,
   its origin, the segments of its pathname ("/a/b" is <<"a", "b">>) and
   its token search parameter (NullStr when absent). *)
QR(path, tok) ==
    [isUrl |-> TRUE, origin |-> "http://server", pathname |-> path,
     token |-> tok]

NotAUrl ==
    [isUrl |-> FALSE, origin |-> "", pathname |-> <<>>, token |-> NullStr]

QRCodes ==
    {NotAUrl,
     QR(<<"mobile-upload", "S1", "U1">>, NullStr),
     QR(<<"mobile-upload", "S1", "U1">>, "T1"),
     QR(<<"api", "styles", "S1">>, "T1"),
     QR(<<"api", "styles", "S1">>, NullStr),
     QR(<<"upload">>, NullStr)}

(* url.pathname.split('/'): the pathname starts with "/", so the first
   part is the empty string. *)
Split(pathname) ==
    IF pathname = <<>> THEN <<"", "">> ELSE <<"">> \o pathname

(* parts[k] of a JavaScript array (indices from 0), undefined as NullStr *)
At(parts, k) == IF k + 1 <= Len(parts) THEN parts[k + 1] ELSE NullStr

Truthy(v) == v # NullStr /\ v # ""

ScannerFrame ==
    UNCHANGED <<annotatorVars, uploadVars, storage, images>>

(* ScannerScreen re-renders: onBarCodeScanned and the handler's closure see
   the scanned flag. *)
ScannerRender ==
    /\ scannerScreen # [scanned |-> scanned]
    /\ scannerScreen' = [scanned |-> scanned]
    /\ UNCHANGED <<scanned, scans, asyncStorage, invalidAlerts, nScans, route,
                   uploadContext>>
    /\ ScannerFrame

(* handleBarCodeScanned up to its first await. An entry of scans is a
   running call, pc naming the AsyncStorage item whose write it awaits. *)
handleBarCodeScanned(data) ==
    /\ route = "scanner"
    /\ ~scannerScreen.scanned
    /\ nScans < MaxScans
    /\ nScans' = nScans + 1
    /\ IF ~data.isUrl
       THEN /\ invalidAlerts' = invalidAlerts + 1
            /\ scanned' = TRUE
            /\ UNCHANGED <<scans, route>>
       ELSE LET pathParts == Split(data.pathname)
                styleId == At(pathParts, 3)
                token == data.token
            IN IF Truthy(styleId) /\ Truthy(token)
               THEN /\ scans' = Append(scans,
                          [data |-> data, styleId |-> styleId,
                           token |-> token, baseUrl |-> data.origin,
                           pc |-> "styleId"])
                    /\ UNCHANGED <<scanned, invalidAlerts, route>>
               ELSE /\ scanned' = TRUE
                    /\ invalidAlerts' = invalidAlerts + 1
                    /\ route' = "home"
                    /\ UNCHANGED scans
    /\ UNCHANGED <<scannerScreen, asyncStorage, uploadContext>>
    /\ ScannerFrame

(* The awaited AsyncStorage.setItem of call i resolved; after the third
   one the call sets the flag and the upload context and opens upload. *)
SetItemResolved(i) ==
    /\ i \in 1..Len(scans)
    /\ CASE scans[i].pc = "styleId" ->
              /\ asyncStorage' = [asyncStorage EXCEPT
                                     !.styleId = scans[i].styleId]
              /\ scans' = [scans EXCEPT ![i].pc = "accessToken"]
              /\ UNCHANGED <<scanned, uploadContext, route>>
         [] scans[i].pc = "accessToken" ->
              /\ asyncStorage' = [asyncStorage EXCEPT
                                     !.accessToken = scans[i].token]
              /\ scans' = [scans EXCEPT ![i].pc = "baseUrl"]
              /\ UNCHANGED <<scanned, uploadContext, route>>
         [] scans[i].pc = "baseUrl" ->
              /\ asyncStorage' = [asyncStorage EXCEPT
                                     !.baseUrl = scans[i].baseUrl]
              /\ scans' = RemoveAt(scans, i)
              /\ scanned' = TRUE
              /\ uploadContext' = [styleId |-> scans[i].styleId,
                                   token |-> scans[i].token,
                                   baseUrl |-> scans[i].baseUrl]
              /\ route' = "upload"
    /\ UNCHANGED <<scannerScreen, invalidAlerts, nScans>>
    /\ ScannerFrame

(* The awaited setItem rejected: the catch block alerts and sets the flag. *)
SetItemRejected(i) ==
    /\ i \in 1..Len(scans)
    /\ scans' = RemoveAt(scans, i)
    /\ invalidAlerts' = invalidAlerts + 1
    /\ scanned' = TRUE
    /\ UNCHANGED <<scannerScreen, asyncStorage, nScans, route, uploadContext>>
    /\ ScannerFrame

(* The Scan Again button, rendered while the flag is set. *)
ScanAgain ==
    /\ route = "scanner"
    /\ scannerScreen.scanned
    /\ scanned' = FALSE
    /\ UNCHANGED <<scannerScreen, scans, asyncStorage, invalidAlerts, nScans,
                   route, uploadContext>>
    /\ ScannerFrame

(* Back from the screen router.push put on top of the scanner. *)
goBack ==
    /\ route # "scanner"
    /\ route' = "scanner"
    /\ UNCHANGED <<scanned, scannerScreen, scans, asyncStorage, invalidAlerts,
                   nScans, uploadContext>>
    /\ ScannerFrame

(* The scanner screen as opened from home, nothing scanned yet. *)
InitScanner ==
    /\ st = InitialState(Null)
    /\ rd = InitialState(Null)
    /\ pressed = FALSE
    /\ now = 0
    /\ saves = <<>>
    /\ onSaveCalls = <<>>
    /\ alerts = 0
    /\ thrown = FALSE
    /\ showAnnotator = FALSE
    /\ selectedImageIndex = 0
    /\ loadedAnnotations = Null
    /\ storage = Null
    /\ images = <<>>
    /\ session = 0
    /\ atOpen = Null
    /\ closedBy = "none"
    /\ nOps = 0
    /\ UploadIdle
    /\ scanned = FALSE
    /\ scannerScreen = [scanned |-> FALSE]
    /\ scans = <<>>
    /\ asyncStorage = [styleId |-> NullStr, accessToken |-> NullStr,
                       baseUrl |-> NullStr]
    /\ invalidAlerts = 0
    /\ nScans = 0
    /\ route = "scanner"
    /\ uploadContext = Null

NextScanner ==
    \/ \E data \in QRCodes : handleBarCodeScanned(data)
    \/ \E i \in 1..MaxScans : SetItemResolved(i)
    \/ \E i \in 1..MaxScans : SetItemRejected(i)
    \/ ScanAgain
    \/ ScannerRender
    \/ goBack

SpecScanner == InitScanner /\ [][NextScanner]_vars

(* ============================== properties ============================= *)
Collections == {"paths", "texts", "icons", "rectangles", "measurements",
                "comparisons"}

(* A step of the mounted session in which collection f gained one element
   at its end. *)
Appended(f) ==
    /\ Len(st'[f]) = Len(st[f]) + 1
    /\ SubSeq(st'[f], 1, Len(st[f])) = st[f]

(* A commit of a new path, text, icon, rectangle, measurement or comparison:
   a collection is extended while the undo stack does not shrink (an undo
   pops the stack). *)
AddCommit ==
    /\ session' = session
    /\ Len(st'.undoStack) >= Len(st.undoStack)
    /\ \E f \in Collections : Appended(f)

(* One of the running handleSave calls, still waiting for captureRef,
   ended without reaching the host. *)
CaptureFailStep(i) ==
    /\ i \in 1..Len(saves)
    /\ saves[i].pc = "capture"
    /\ saves' = RemoveAt(saves, i)

(* The running handleSave call i called onSave in this step. *)
OnSaveStepOf(i) ==
    /\ i \in 1..Len(saves)
    /\ saves[i].pc = "capture"
    /\ Len(saves') = Len(saves)
    /\ saves'[i].pc = "host"
    /\ Len(onSaveCalls') = Len(onSaveCalls) + 1

(* A running handleSave call that had called onSave finished in this step. *)
SaveEndStep(i) ==
    /\ i \in 1..Len(saves)
    /\ saves[i].pc = "host"
    /\ saves' = RemoveAt(saves, i)

(* Some handleSave call of the mounted session is running. *)
SaveInFlight ==
    /\ Mounted
    /\ \E i \in 1..Len(saves) : saves[i].sess = session

CallsOf(s) == {i \in 1..Len(onSaveCalls) : onSaveCalls[i].sess = s}

(* C1: every commit of a new annotation pushes exactly one snapshot, equal
   to the collections immediately before the commit, and an undo replaces
   the collections by the snapshot on top of the stack - so that one undo
   after an add gives back the state before the add. *)
C1_AddThenUndoRestores ==
    [][/\ AddCommit =>
            /\ Len(st'.undoStack) = Len(st.undoStack) + 1
            /\ st'.undoStack[Len(st'.undoStack)] = Snapshot(st)
       /\ (handleUndo /\ Len(st.undoStack) > 0) =>
            Snapshot(st') = st.undoStack[Len(st.undoStack)]]_vars

(* C2: in the first session (opened with nothing stored, hence no initial
   set) one press in tick mode sets the dirty flag; and when the session
   consisted of that press, its release and a Save whose capture succeeded,
   onSave was called once, with exactly the collections of the store - the
   single tick icon at the press point - and a thumbnail reference, the
   dirty flag is cleared and the annotator closed. *)
C2_TickThenSave ==
    /\ (session = 1 /\ nOps = 1 /\ Len(st.icons) = 1) => st.hasUnsavedChanges
    /\ (session = 1 /\ nOps = 3 /\ closedBy = "save" /\ Len(st.icons) = 1
            /\ ~pressed /\ st.undoStack = <<>> /\ Len(onSaveCalls) = 1) =>
          /\ onSaveCalls[1].annotations =
                [paths |-> <<>>, texts |-> <<>>, icons |-> st.icons,
                 rectangles |-> <<>>, measurements |-> <<>>,
                 thumbnailUri |-> onSaveCalls[1].annotations.thumbnailUri]
          /\ onSaveCalls[1].annotations.thumbnailUri \notin {"", NullStr}
          /\ st.comparisons = <<>>
          /\ ~st.hasUnsavedChanges
          /\ ~showAnnotator

C2_Witness ==
    /\ session = 1 /\ nOps = 3 /\ closedBy = "save" /\ Len(onSaveCalls) = 1
    /\ ~pressed /\ st.undoStack = <<>>
    /\ Len(st.icons) = 1
    /\ st.icons[1].type = "tick"
    /\ st.icons[1].position = [x |-> 100, y |-> 100]
    /\ onSaveCalls[1].annotations.icons = st.icons

(* C3: when captureRef fails, handleSave calls neither onSave nor onClose
   and changes nothing of the session: collections, undo stack and dirty
   flag are as before, and the dirty flag of the session that pressed Save
   is still set while that session is open. *)
C3_CaptureFailureAborts ==
    [][\A i \in 1..MaxSaves :
          CaptureFailStep(i) =>
            /\ onSaveCalls' = onSaveCalls
            /\ showAnnotator' = showAnnotator
            /\ closedBy' = closedBy
            /\ st' = st
            /\ storage' = storage
            /\ images' = images
            /\ (saves[i].sess = session /\ showAnnotator) =>
                   st'.hasUnsavedChanges]_vars

C3_Witness ==
    /\ alerts = 1 /\ onSaveCalls = <<>> /\ saves = <<>>
    /\ showAnnotator /\ closedBy = "none"
    /\ st.hasUnsavedChanges
    /\ ~pressed

(* C4: onSave is called, and the annotator is closed by a save, only in
   states in which the dirty flag of the saving session is set. *)
C4_SaveOnlyWhenDirty ==
    [][\A i \in 1..MaxSaves :
          /\ (OnSaveStepOf(i) /\ saves[i].sess = session)
               => st.hasUnsavedChanges
          /\ (SaveEndStep(i) /\ saves[i].sess = session)
               => st.hasUnsavedChanges]_vars

(* C5: after the session was closed by Cancel, the host holds for the
   image exactly the AnnotationSet it held when the session was opened:
   nothing of the cancelled session is ever committed. *)
C5_CancelCommitsNothing ==
    closedBy = "cancel" => storage = atOpen

(* C6: within one session onSave is called at most once. *)
C6_OnSaveAtMostOnce ==
    \A s \in 1..MaxSessions : Cardinality(CallsOf(s)) <= 1

(* C7: while a save of the session is in flight no step changes any of
   its annotation collections. *)
C7_NoMutationDuringSave ==
    [][(SaveInFlight /\ session' = session) =>
          \A f \in Collections : st'[f] = st[f]]_vars

(* C8: when the host's persistence fails (its error alert is shown), the
   annotator is not closed and the dirty flag is not cleared. *)
C8_HostFailureKeepsSession ==
    [][\A i \in 1..MaxSaves :
          (SaveEndStep(i) /\ alerts' = alerts + 1) =>
              /\ showAnnotator' = showAnnotator
              /\ st'.hasUnsavedChanges = st.hasUnsavedChanges]_vars

(* C9: an undo with an empty undo stack changes neither the collections
   nor the dirty flag nor the stack, and raises no error. *)
C9_UndoOnEmptyIsNoOp ==
    [][(handleUndo /\ Len(st.undoStack) = 0) =>
          /\ st' = st
          /\ thrown' = FALSE]_vars

C9_Witness ==
    /\ session = 1 /\ nOps = 1 /\ showAnnotator /\ ~pressed
    /\ st.undoStack = <<>>
    /\ ~st.hasUnsavedChanges
    /\ thrown = FALSE

(* C10: clearAll empties all six collections and pushes exactly one
   snapshot, which holds the content before the clear. *)
C10_ClearAllEmptiesEverything ==
    [][handleClearAll =>
          /\ \A f \in Collections : st'[f] = <<>>
          /\ Len(st'.undoStack) = Len(st.undoStack) + 1
          /\ st'.undoStack[Len(st'.undoStack)] = Snapshot(st)]_vars

(* A step of a canvas gesture (press, move or release) handled in mode m. *)
GestureStepIn(m) ==
    /\ rd.mode = m
    /\ \/ onPanResponderRelease
       \/ \E p \in PointSet : onPanResponderGrant(p) \/ onPanResponderMove(p)

(* C11: a measure gesture followed by confirming the prompt with an empty
   value is a frame: no step of the gesture and no confirmation with an
   empty value changes the measurements or the dirty flag. *)
C11_EmptyMeasureConfirmIsFrame ==
    [][(GestureStepIn("measure")
           \/ (MeasurementAdd /\ rd.measurementInput = "")) =>
          /\ st'.measurements = st.measurements
          /\ st'.hasUnsavedChanges = st.hasUnsavedChanges]_vars

(* The last element of collection f after the step. *)
LastAdded(f) == st'[f][Len(st'[f])]

(* C12: in the measure and compare modes a release adds nothing to the
   store; a measurement is appended only by confirming with a non-empty
   value and a comparison only with both values non-empty; the line that
   is appended starts at the press point and ends at the last move point. *)
C12_MeasureCommitsOnlyOnConfirm ==
    [][/\ (onPanResponderRelease /\ rd.mode \in {"measure", "compare"}) =>
              \A f \in Collections : st'[f] = st[f]
       /\ (AddCommit /\ Appended("measurements")) =>
              /\ MeasurementAdd
              /\ rd.measurementInput # ""
              /\ st.currentMeasurement # Null
              /\ LastAdded("measurements").start = st.currentMeasurement.start
              /\ LastAdded("measurements").end = st.currentMeasurement.end
       /\ (AddCommit /\ Appended("comparisons")) =>
              /\ ComparisonAdd
              /\ rd.currentComparisonInput # ""
              /\ rd.targetComparisonInput # ""
              /\ st.currentComparison # Null
              /\ LastAdded("comparisons").start = st.currentComparison.start
              /\ LastAdded("comparisons").end = st.currentComparison.end
       /\ \A p \in PointSet :
            /\ (onPanResponderGrant(p) /\ rd.mode = "measure") =>
                   /\ st'.currentMeasurement # Null
                   /\ st'.currentMeasurement.start = p
                   /\ st'.currentMeasurement.end = p
            /\ (onPanResponderGrant(p) /\ rd.mode = "compare") =>
                   /\ st'.currentComparison # Null
                   /\ st'.currentComparison.start = p
                   /\ st'.currentComparison.end = p
            /\ (onPanResponderMove(p) /\ rd.mode = "measure"
                  /\ st.currentMeasurement # Null) =>
                   /\ st'.currentMeasurement # Null
                   /\ st'.currentMeasurement.start = st.currentMeasurement.start
                   /\ st'.currentMeasurement.end = p
            /\ (onPanResponderMove(p) /\ rd.mode = "compare"
                  /\ st.currentComparison # Null) =>
                   /\ st'.currentComparison # Null
                   /\ st'.currentComparison.start = st.currentComparison.start
                   /\ st'.currentComparison.end = p]_vars

C12_Witness ==
    /\ Mounted
    /\ Len(st.measurements) = 1
    /\ st.measurements[1].measurement = "5"
    /\ st.measurements[1].start # st.measurements[1].end
    /\ st.currentMeasurement = Null

(* C13: confirming the text, measurement or comparison prompt with an
   empty value discards the pending shape: after the step no prompt is
   open, no shape is in progress and no collection has changed. *)
C13_EmptyConfirmDiscards ==
    [][(\/ TextAdd /\ rd.textInput = ""
        \/ MeasurementAdd /\ rd.measurementInput = ""
        \/ ComparisonAdd /\ (rd.currentComparisonInput = ""
                               \/ rd.targetComparisonInput = "")) =>
          /\ ~st'.showTextInput
          /\ ~st'.showMeasurementInput
          /\ ~st'.showComparisonInput
          /\ st'.currentMeasurement = Null
          /\ st'.currentComparison = Null
          /\ \A f \in Collections : st'[f] = st[f]]_vars

(* C15: while a rectangle is selected every move event translates both of
   its endpoints by the pointer's displacement since the reference point
   (the press point, re-based by each move), so that the translations of
   N moves add up to the sum of the pointer deltas. *)
C15_DragTranslatesBySum ==
    [][\A p \in PointSet :
          (onPanResponderMove(p) /\ rd.mode = "select"
              /\ st.selectedItem.type = "rectangle"
              /\ st.selectedItem.initialPosition # Null) =>
             LET dx == p.x - st.selectedItem.initialPosition.x
                 dy == p.y - st.selectedItem.initialPosition.y
             IN st'.rectangles =
                    MoveEnds(st.rectangles, st.selectedItem.id, dx, dy)]_vars

(* C16: an annotation set saved through onSave and passed back as
   initialAnnotations is reproduced unchanged: the session opened after a
   session was closed by its one save, whose payload the host stored,
   starts with the six collections that session held. *)
C16_SaveLoadRoundTrip ==
    [][(/\ handleImagePress(1)
        /\ closedBy = "save"
        /\ saves = <<>>
        /\ Cardinality(CallsOf(session)) = 1
        /\ \A i \in CallsOf(session) :
              /\ storage = JSONstringify(onSaveCalls[i].annotations)
              /\ \A f \in Collections \ {"comparisons"} :
                    onSaveCalls[i].annotations[f] = st[f]) =>
          \A f \in Collections : st'[f] = st[f]]_vars

(* C17: switching the tool mode leaves no in-progress shape behind: after
   the switch no path, rectangle, measurement or comparison is uncommitted
   and no prompt is open. *)
C17_ModeSwitchLeavesNothingPending ==
    [][(\E m \in ModeButtons : setMode(m)) =>
          /\ st'.currentPath = Null
          /\ st'.currentRect = Null
          /\ st'.currentMeasurement = Null
          /\ st'.currentComparison = Null
          /\ ~st'.showTextInput
          /\ ~st'.showMeasurementInput
          /\ ~st'.showComparisonInput]_vars

(* C20: a drag in select mode pushes the pre-drag state on the undo stack
   exactly once, at the press that selects the annotation, and no move
   pushes anything, so that one undo after the drag restores the pre-drag
   position. *)
C20_DragSnapshotsOnceAtStart ==
    [][\A p \in PointSet :
          /\ (onPanResponderGrant(p) /\ rd.mode = "select"
                 /\ st'.selectedItem.id # NullStr) =>
                st'.undoStack = Append(st.undoStack, Snapshot(st))
          /\ (onPanResponderMove(p) /\ rd.mode = "select") =>
                st'.undoStack = st.undoStack]_vars

(* The collection of the first annotation hit at point, probing texts,
   icons, rectangles, measurements and comparisons in this order, and the
   index of that annotation; "none" and 0 when nothing is hit. *)
FirstHitKind(s, point) ==
    IF FindText(s.texts, point) # 0 THEN "texts"
    ELSE IF FindIcon(s.icons, point) # 0 THEN "icons"
    ELSE IF FindBox(s.rectangles, point) # 0 THEN "rectangles"
    ELSE IF FindBox(s.measurements, point) # 0 THEN "measurements"
    ELSE IF FindBox(s.comparisons, point) # 0 THEN "comparisons"
    ELSE "none"

FirstHitIndex(s, point) ==
    CASE FirstHitKind(s, point) = "texts" -> FindText(s.texts, point)
      [] FirstHitKind(s, point) = "icons" -> FindIcon(s.icons, point)
      [] FirstHitKind(s, point) = "none" -> 0
      [] OTHER -> FindBox(s[FirstHitKind(s, point)], point)

(* C14: a press in delete mode removes the first annotation hit in the
   order text, icon, rectangle, measurement, comparison and nothing else:
   where a text and an icon are both hit, only the text is removed. *)
C14_DeleteRemovesFirstHit ==
    [][\A p \in PointSet :
          handleTouchStart(p) =>
             \A f \in Collections :
                 st'[f] = IF f = FirstHitKind(st, p)
                          THEN RemoveAt(st[f], FirstHitIndex(st, p))
                          ELSE st[f]]_vars

(* C18: after an upload batch in which every image was uploaded (the
   completion alert is shown and every image of the screen is marked
   uploaded), acknowledging the completion alert navigates home. *)
C18_ReturnsHomeOnCompletion ==
    [][\A d \in 1..MaxBatches :
          (/\ AlertOK(d)
           /\ dialogs[d].title = UploadComplete
           /\ \A i \in 1..Len(images) : images[i].uploaded) =>
             route' = "home"]_vars

(* The documented QR format http://[server-url]/mobile-upload/[style-id]/
   [unique-id], and data that carries no upload target: not a URL, or a
   URL with no style id or with neither unique id nor token. *)
Documented(d) ==
    /\ d.isUrl
    /\ Len(d.pathname) = 3
    /\ d.pathname[1] = "mobile-upload"
    /\ Truthy(d.pathname[2])
    /\ Truthy(d.pathname[3])

CarriesNoTarget(d) ==
    \/ ~d.isUrl
    \/ Len(d.pathname) < 2
    \/ Len(d.pathname) < 3 /\ ~Truthy(d.token)

(* Call i of handleBarCodeScanned opens the upload screen in this step. *)
OpensUpload(i) ==
    /\ i \in 1..Len(scans)
    /\ scans[i].pc = "baseUrl"
    /\ scans' = RemoveAt(scans, i)
    /\ route' = "upload"

(* C19: a scan in the documented format is accepted (no alert, no way
   back home) and opens the upload screen with styleId = [style-id] and
   the target stored; scanned data carrying no target stores nothing and
   does not open the upload screen. *)
C19_ScannerAcceptsDocumentedFormat ==
    [][/\ \A d \in QRCodes :
            /\ (handleBarCodeScanned(d) /\ Documented(d)) =>
                  /\ Len(scans') = Len(scans) + 1
                  /\ invalidAlerts' = invalidAlerts
                  /\ route' = route
            /\ (handleBarCodeScanned(d) /\ CarriesNoTarget(d)) =>
                  /\ scans' = scans
                  /\ asyncStorage' = asyncStorage
                  /\ uploadContext' = uploadContext
                  /\ route' # "upload"
       /\ \A i \in 1..MaxScans :
            OpensUpload(i) =>
                  /\ asyncStorage'.styleId = uploadContext'.styleId
                  /\ asyncStorage'.baseUrl = uploadContext'.baseUrl
                  /\ Documented(scans[i].data) =>
                        uploadContext'.styleId = scans[i].data.pathname[2]]_vars

(* C21: no two annotations present in the store at the same time share an
   id, also when both were created within the same clock tick. *)
C21_IdsUnique ==
    Mounted =>
       \A f \in Collections, g \in Collections :
          \A i \in DOMAIN st[f], j \in DOMAIN st[g] :
              <<f, i>> # <<g, j>> => st[f][i].id # st[g][j].id

(* C22: a press in tick or cross mode appends exactly one icon of that kind
   at the press point and sets the dirty flag, leaving every other
   collection as it was; a press in any other mode changes no collection. *)
C22_PressCommitsOnlyIcons ==
    [][\A p \in PointSet :
          onPanResponderGrant(p) =>
             IF rd.mode \in {"tick", "cross"}
             THEN /\ Len(st'.icons) = Len(st.icons) + 1
                  /\ SubSeq(st'.icons, 1, Len(st.icons)) = st.icons
                  /\ LastAdded("icons").type = rd.mode
                  /\ LastAdded("icons").position = p
                  /\ st'.hasUnsavedChanges
                  /\ \A f \in Collections \ {"icons"} : st'[f] = st[f]
             ELSE \A f \in Collections : st'[f] = st[f]]_vars

C22_Witness ==
    /\ Mounted
    /\ pressed
    /\ st.mode = "cross"
    /\ Len(st.icons) = 2
    /\ st.icons[1].type = "tick"
    /\ st.icons[2].type = "cross"
    /\ st.icons[2].position # st.icons[1].position
    /\ st.hasUnsavedChanges

(* C23: in draw mode the press starts the path with the press point, every
   move appends its point to the points accumulated so far, whether or not
   the component has rendered since the previous move, and the release
   appends exactly the accumulated path to the paths. *)
C23_DrawKeepsEveryPoint ==
    [][/\ \A p \in PointSet :
            /\ (onPanResponderGrant(p) /\ rd.mode = "draw") =>
                   /\ st'.currentPath # Null
                   /\ st'.currentPath.points = <<p>>
            /\ (onPanResponderMove(p) /\ st.mode = "draw"
                  /\ st.currentPath # Null) =>
                   /\ st'.currentPath # Null
                   /\ st'.currentPath.points = Append(st.currentPath.points, p)
       /\ (onPanResponderRelease /\ st.mode = "draw"
             /\ st.currentPath # Null) =>
               /\ st'.paths = Append(st.paths, st.currentPath)
               /\ st'.currentPath = Null]_vars

(* C24: in rectangle mode the press starts a rectangle whose start and end
   are the press point, a move keeps the start and sets the end to the move
   point, and the release appends exactly the rectangle as drawn to the
   rectangles committed so far, losing none of them. *)
C24_RectangleAsDrawn ==
    [][/\ \A p \in PointSet :
            /\ (onPanResponderGrant(p) /\ rd.mode = "rectangle") =>
                   /\ st'.currentRect # Null
                   /\ st'.currentRect.start = p
                   /\ st'.currentRect.end = p
            /\ (onPanResponderMove(p) /\ st.mode = "rectangle"
                  /\ st.currentRect # Null) =>
                   /\ st'.currentRect # Null
                   /\ st'.currentRect.start = st.currentRect.start
                   /\ st'.currentRect.end = p
       /\ (onPanResponderRelease /\ st.mode = "rectangle"
             /\ st.currentRect # Null) =>
               /\ st'.rectangles = Append(st.rectangles, st.currentRect)
               /\ st'.currentRect = Null]_vars

(* C25: a press in text mode records the press point as the anchor and
   opens the text prompt, and an open prompt always has an anchor;
   confirming with non-empty text appends exactly one text, carrying the
   entered text at the anchor of the latest such press, and changes no
   other collection; cancelling closes the prompt, changes no collection
   and leaves the dirty flag as it was. *)
C25_TextAtAnchor ==
    [][/\ \A p \in PointSet :
            (onPanResponderGrant(p) /\ rd.mode = "text") =>
                /\ st'.textPosition = p
                /\ st'.showTextInput
       /\ st'.showTextInput => st'.textPosition # Null
       /\ (TextAdd /\ rd.textInput # "") =>
                /\ Appended("texts")
                /\ LastAdded("texts").position = st.textPosition
                /\ LastAdded("texts").text = rd.textInput
                /\ \A f \in Collections \ {"texts"} : st'[f] = st[f]
                /\ ~st'.showTextInput
       /\ TextCancel =>
                /\ \A f \in Collections : st'[f] = st[f]
                /\ st'.hasUnsavedChanges = st.hasUnsavedChanges
                /\ ~st'.showTextInput]_vars

C25_Witness ==
    /\ Mounted
    /\ Len(st.texts) = 1
    /\ st.texts[1].text = "5"
    /\ st.texts[1].position = [x |-> 100, y |-> 100]
    /\ st.textPosition = [x |-> 100, y |-> 100]
    /\ ~st.showTextInput

(* The kinds in the order in which a select press probes them, the type
   each is selected as, and the hit test of each. *)
ProbeOrder == <<"texts", "icons", "rectangles", "measurements", "comparisons">>

TypeName == <<"text", "icon", "rectangle", "measurement", "comparison">>

Touched(k, point, a) ==
    CASE k = 1 -> isTextTouched(point, a)
      [] k = 2 -> isIconTouched(point, a)
      [] k = 3 -> isRectangleTouched(point, a)
      [] k = 4 -> isMeasurementTouched(point, a)
      [] OTHER -> isComparisonTouched(point, a)

(* The annotations of s under the point, as <<kind, index>>. *)
Hits(s, point) ==
    UNION {{<<k, i>> : i \in {j \in DOMAIN s[ProbeOrder[k]] :
                                 Touched(k, point, s[ProbeOrder[k]][j])}} :
              k \in DOMAIN ProbeOrder}

Precedes(h, g) == h[1] < g[1] \/ (h[1] = g[1] /\ h[2] <= g[2])

(* C26: a press in select mode selects the annotation under the press point
   that comes first in the order text, icon, rectangle, measurement,
   comparison and, within its kind, first in the collection, with the press
   point as the drag's reference point; when no annotation is under the
   point the selection is empty, and the moves of a press that selected
   nothing change neither the collections nor the dirty flag nor the
   selection. *)
C26_SelectsFirstHit ==
    [][\A p \in PointSet :
          /\ (onPanResponderGrant(p) /\ rd.mode = "select") =>
                /\ \A f \in Collections : st'[f] = st[f]
                /\ IF Hits(st, p) = {}
                   THEN st'.selectedItem = NoSelection
                   ELSE \E h \in Hits(st, p) :
                           /\ \A g \in Hits(st, p) : Precedes(h, g)
                           /\ st'.selectedItem =
                                 [type |-> TypeName[h[1]],
                                  id |-> st[ProbeOrder[h[1]]][h[2]].id,
                                  initialPosition |-> p]
          /\ (onPanResponderMove(p) /\ st.mode = "select"
                /\ st.selectedItem.id = NullStr) =>
                /\ \A f \in Collections : st'[f] = st[f]
                /\ st'.hasUnsavedChanges = st.hasUnsavedChanges
                /\ st'.selectedItem = NoSelection]_vars

(* Two texts and an icon under the press point: the first text is
   selected. *)
C26_Witness ==
    /\ Mounted
    /\ pressed
    /\ st.mode = "select"
    /\ Len(st.texts) = 2
    /\ st.selectedItem.type = "text"
    /\ st.selectedItem.id = st.texts[1].id
    /\ isTextTouched(st.selectedItem.initialPosition, st.texts[2])
    /\ Len(st.icons) > 0
    /\ isIconTouched(st.selectedItem.initialPosition, st.icons[1])

(* C27: whenever no pointer is pressed the selection is empty, and a
   release in select mode empties the selection and changes no
   collection. *)
C27_SelectionOnlyWhileDragging ==
    /\ [](Mounted /\ ~pressed => st.selectedItem = NoSelection)
    /\ [][(onPanResponderRelease /\ st.mode = "select") =>
             /\ st'.selectedItem = NoSelection
             /\ \A f \in Collections : st'[f] = st[f]]_vars

(* After a drag that moved an annotation and was released. *)
C27_Witness ==
    /\ Mounted
    /\ ~pressed
    /\ st.mode = "select"
    /\ st.hasUnsavedChanges
    /\ nOps >= 3
    /\ st.selectedItem = NoSelection

(* The collection an annotation selected as type t lives in. *)
CollectionOf(t) ==
    CASE t = "text" -> "texts"
      [] t = "icon" -> "icons"
      [] t = "rectangle" -> "rectangles"
      [] t = "measurement" -> "measurements"
      [] OTHER -> "comparisons"

(* The selection of s addresses an id that its collection does not hold. *)
SelectedGone(s) ==
    /\ s.selectedItem.id # NullStr
    /\ \A i \in DOMAIN s[CollectionOf(s.selectedItem.type)] :
          s[CollectionOf(s.selectedItem.type)][i].id # s.selectedItem.id

(* C28: a move of a drag whose selected id is in no collection changes no
   collection and raises no error. *)
C28_MoveOfGoneIdIsNoOp ==
    [][\A p \in PointSet :
          (onPanResponderMove(p) /\ st.mode = "select" /\ SelectedGone(st)) =>
              /\ \A f \in Collections : st'[f] = st[f]
              /\ thrown' = thrown]_vars

(* A move has been handled (it set the dirty flag) in a drag whose id is
   gone, over a store that holds an annotation of the selected type. *)
C28_Witness ==
    /\ Mounted
    /\ pressed
    /\ SelectedGone(st)
    /\ st.hasUnsavedChanges
    /\ Len(st[CollectionOf(st.selectedItem.type)]) > 0
    /\ ~thrown

(* C29: when a session is opened, every collection holds what the supplied
   initial set has for it and is empty when the set is absent or lacks the
   field; the undo stack is empty, the dirty flag is false, nothing is
   selected, no shape is in progress and no prompt is open. *)
C29_SessionOpensFromInitialSet ==
    [][handleImagePress(1) =>
          /\ \A f \in Collections :
                st'[f] = IF loadedAnnotations' # Null
                              /\ f \in DOMAIN loadedAnnotations'
                         THEN loadedAnnotations'[f]
                         ELSE <<>>
          /\ st'.undoStack = <<>>
          /\ ~st'.hasUnsavedChanges
          /\ st'.selectedItem = NoSelection
          /\ st'.currentPath = Null
          /\ st'.currentRect = Null
          /\ st'.currentMeasurement = Null
          /\ st'.currentComparison = Null
          /\ ~st'.showTextInput
          /\ ~st'.showMeasurementInput
          /\ ~st'.showComparisonInput
          /\ ~pressed']_vars

(* A session just opened over a saved set that holds an icon. *)
C29_Witness ==
    /\ Mounted
    /\ session = 2
    /\ loadedAnnotations # Null
    /\ Len(loadedAnnotations.icons) = 1
    /\ st.icons = loadedAnnotations.icons
    /\ st.undoStack = <<>>
    /\ ~st.hasUnsavedChanges
    /\ rd = st

(* C30: the label angle of every measured line on the canvas is greater
   than -90 and at most 90 degrees, and a line whose raw direction is -135
   degrees is labelled at 45 degrees. *)
C30_LabelAngleInHalfOpenRange ==
    Mounted =>
       \A i \in DOMAIN st.measurements :
          LET m == st.measurements[i]
              label == getTextRotationAndPosition(m.start, m.end)
          IN /\ label.angle > -90
             /\ label.angle <= 90
             /\ Atan2Deg(m.end.y - m.start.y, m.end.x - m.start.x) = -135
                   => label.angle = 45

(* The point lies in the bounding box of the shape's two ends, whichever of
   them is the smaller in each axis, grown by 30 on every side. *)
InGrownBox(point, shape) ==
    /\ IF shape.start.x <= shape.end.x
       THEN shape.start.x - 30 <= point.x /\ point.x <= shape.end.x + 30
       ELSE shape.end.x - 30 <= point.x /\ point.x <= shape.start.x + 30
    /\ IF shape.start.y <= shape.end.y
       THEN shape.start.y - 30 <= point.y /\ point.y <= shape.end.y + 30
       ELSE shape.end.y - 30 <= point.y /\ point.y <= shape.start.y + 30

(* C31: over a store of one annotation a select press selects it when the
   annotation is hit and selects nothing otherwise. A text is hit at its
   anchor and not hit where the x or the y distance from the anchor is at
   least 50, an icon likewise with 30; a rectangle, measurement or
   comparison is hit exactly at the points of the bounding box of its two
   ends grown by 30, whichever end is the start, also when the ends
   coincide. *)
C31_HitTesting ==
    [][\A p \in HitPoints :
          (onPanResponderGrant(p) /\ rd.mode = "select"
              /\ Cardinality(UNION {{<<f, i>> : i \in DOMAIN st[f]} :
                                       f \in Collections}) = 1) =>
             LET hit == st'.selectedItem.id # NullStr
             IN /\ \A i \in DOMAIN st.texts :
                      /\ p = st.texts[i].position => hit
                      /\ (\/ Abs(p.x - st.texts[i].position.x) >= 50
                          \/ Abs(p.y - st.texts[i].position.y) >= 50) => ~hit
                /\ \A i \in DOMAIN st.icons :
                      /\ p = st.icons[i].position => hit
                      /\ (\/ Abs(p.x - st.icons[i].position.x) >= 30
                          \/ Abs(p.y - st.icons[i].position.y) >= 30) => ~hit
                /\ \A f \in {"rectangles", "measurements", "comparisons"} :
                      \A i \in DOMAIN st[f] : hit <=> InGrownBox(p, st[f][i])]_vars

(* A rectangle drawn from its bottom-right to its top-left corner is
   selected by a press on the edge of its margin. *)
C31_Witness ==
    /\ Mounted
    /\ pressed
    /\ Len(st.rectangles) = 1
    /\ st.rectangles[1].start = [x |-> 20, y |-> 20]
    /\ st.rectangles[1].end = Origin
    /\ st.selectedItem.id = st.rectangles[1].id
    /\ st.selectedItem.initialPosition = [x |-> 50, y |-> -30]

(* What the session was opened with in collection f. *)
SuppliedAtOpen(f) ==
    IF loadedAnnotations # Null /\ f \in DOMAIN loadedAnnotations
    THEN loadedAnnotations[f]
    ELSE <<>>

(* C32: in every state of a session in which a collection differs from
   what the session was opened with, hasUnsavedChanges is true. *)
C32_DirtyWhenChanged ==
    Mounted =>
       ((\E f \in Collections : st[f] # SuppliedAtOpen(f))
            => st.hasUnsavedChanges)

(* A session opened over a saved icon, after clear-all. *)
C32_Witness ==
    /\ Mounted
    /\ session = 2
    /\ SuppliedAtOpen("icons") # <<>>
    /\ st.icons = <<>>
    /\ st.hasUnsavedChanges

(* C33: a move in select mode leaves unchanged every annotation whose id
   or kind is not the selected one, the number of annotations of every
   kind, the paths, the undo stack and the tool mode. *)
C33_DragMovesOnlySelected ==
    [][\A p \in PointSet :
          (onPanResponderMove(p) /\ st.mode = "select") =>
              /\ \A f \in Collections :
                    /\ Len(st'[f]) = Len(st[f])
                    /\ \A i \in DOMAIN st[f] :
                          (\/ f # CollectionOf(st.selectedItem.type)
                           \/ st[f][i].id # st.selectedItem.id)
                              => st'[f][i] = st[f][i]
              /\ st'.paths = st.paths
              /\ st'.undoStack = st.undoStack
              /\ st'.mode = st.mode]_vars

(* The first of two icons at the same point has been dragged away from the
   second, with a rectangle under them left where it was. *)
C33_Witness ==
    /\ Mounted
    /\ pressed
    /\ st.hasUnsavedChanges
    /\ Len(st.icons) = 2
    /\ st.selectedItem.id = st.icons[1].id
    /\ st.icons[1].position = [x |-> 100, y |-> 100]
    /\ st.icons[2].position = [x |-> 0, y |-> 0]
    /\ st.texts = <<>>
    /\ Len(st.rectangles) = 1
    /\ st.rectangles[1].start = [x |-> 0, y |-> 0]

(* C34: in every reachable state at most one of the text, measurement and
   comparison prompts is open. *)
C34_AtMostOnePrompt ==
    Mounted =>
       /\ ~(st.showTextInput /\ st.showMeasurementInput)
       /\ ~(st.showTextInput /\ st.showComparisonInput)
       /\ ~(st.showMeasurementInput /\ st.showComparisonInput)

(* C35: in every reachable state an open measurement prompt has its
   measured line, an open comparison prompt its compared line and an open
   text prompt its anchor. *)
C35_PromptHasPendingShape ==
    Mounted =>
       /\ st.showMeasurementInput => st.currentMeasurement # Null
       /\ st.showComparisonInput => st.currentComparison # Null
       /\ st.showTextInput => st.textPosition # Null

(* The text prompt and the comparison prompt are both open, each with its
   pending shape. *)
C35_Witness ==
    /\ Mounted
    /\ st.showTextInput
    /\ st.textPosition # Null
    /\ st.showComparisonInput
    /\ st.currentComparison # Null
    /\ ~pressed

(* C36: a press in delete mode at a point where no annotation lies leaves
   every collection, the dirty flag and the undo stack unchanged. *)
C36_DeleteMissIsNoOp ==
    [][\A p \in PointSet :
          (handleTouchStart(p) /\ Hits(st, p) = {}) =>
              /\ \A f \in Collections : st'[f] = st[f]
              /\ st'.hasUnsavedChanges = st.hasUnsavedChanges
              /\ st'.undoStack = st.undoStack]_vars

(* The uris of the images of call u whose request was sent and succeeded. *)
SentOk(u) == {u.images[i].uri : i \in {j \in 1..Len(u.req) : u.req[j] = "ok"}}

Uris == {ImageUris[k] : k \in 1..Len(ImageUris)}

(* The uploaded flag of the image with uri x differs between the lists. *)
FlagChanged(before, after, x) ==
    \E i \in 1..Len(before), j \in 1..Len(after) :
        /\ before[i].uri = x
        /\ after[j].uri = x
        /\ before[i].uploaded # after[j].uploaded

(* C37: upload marking is all-or-nothing per batch: a batch with a failed
   request changes no uploaded flag; a batch whose requests all succeeded
   marks exactly the images it sent; an image already uploaded is not sent
   again. *)
C37_MarkingAllOrNothing ==
    [][/\ \A b \in 1..MaxBatches :
             UploadRejected(b) =>
                 \A x \in Uris : ~FlagChanged(images, images', x)
       /\ (\E x \in Uris : FlagChanged(images, images', x)) =>
             \E b \in 1..Len(uploads) :
                 /\ UploadResolved(b)
                 /\ \A i \in 1..Len(uploads[b].req) :
                       uploads[b].req[i] # "failed"
       /\ \A b \in 1..MaxBatches :
             UploadResolved(b) =>
                 /\ Len(images') = Len(images)
                 /\ \A idx \in 1..Len(images) :
                       /\ images'[idx].uri = images[idx].uri
                       /\ images'[idx].uploaded =
                             (\/ images[idx].uploaded
                              \/ images[idx].uri \in SentOk(uploads[b]))
       /\ handleUpload =>
             \A i \in 1..Len(images) :
                 (Len(uploads') > Len(uploads) /\ images[i].uploaded) =>
                     uploads'[Len(uploads')].req[i] = "skip"]_vars

(* The handleUpload calls that have not reached their finally block. *)
Running == {b \in 1..Len(uploads) : uploads[b].pc = "all"}

(* C38: at most one upload batch is in flight: handleUpload is never
   started while the uploading flag is set, and at most one handleUpload
   call is running. *)
C38_OneBatchInFlight ==
    /\ [](Cardinality(Running) <= 1)
    /\ [][handleUpload => ~uploading]_vars

C38_Witness ==
    /\ uploading
    /\ Cardinality(Running) = 1
    /\ CanPressUpload
    /\ Len(images) > 0
    /\ nBatches < MaxBatches

(* C39: every started upload batch is followed by a state in which the
   uploading flag is false, whether its requests all succeed, one of them
   fails, or the upload context cannot be read. *)
C39_FlagEventuallyReset ==
    \A n \in 1..MaxBatches : (nBatches = n) ~> ~uploading

C39_Witness ==
    /\ nBatches = 2
    /\ ~uploading
    /\ uploads = <<>>
    /\ \E d \in 1..Len(dialogs) : dialogs[d].title = UploadFailed
    /\ \E idx \in 1..Len(images) : images[idx].uploaded

(* C40: once a scan event has been taken up (its handler is awaiting
   storage writes, or it has set the scanned flag), no further scan event
   starts storing an upload target or navigates until Scan Again is
   pressed. *)
C40_ScanHandledOnce ==
    [][\A data \in QRCodes :
          (handleBarCodeScanned(data) /\ (scanned \/ scans # <<>>)) =>
              /\ scans' = scans
              /\ route' = route
              /\ asyncStorage' = asyncStorage
              /\ uploadContext' = uploadContext]_vars
====
